---- MODULE Spec2Model ----
(***************************************************************************)
(* A model of the equality-saturation engine: the union-find               *)
(* (util/src/union_find.rs), the functional-dependency table               *)
(* (db/src/table.rs), and the SSA graph built on both (imp/src/ssa.rs,     *)
(* db/src/rebuild.rs).                                                     *)
(*                                                                         *)
(* ClassId i and RowId i are the natural number i; a Vec is a sequence     *)
(* whose element i lives at index i + 1.                                   *)
(***************************************************************************)
EXTENDS Integers, Sequences, FiniteSets, TLC

VARIABLES
    uf,         \* UnionFind.vec: uf[i + 1] is the parent of ClassId i
    pre_uf,     \* history (SpecUF): uf as it was when the last call started
    table,      \* a stand-alone Table<DET_COLS, DEP_COLS>
    pre_table,  \* history: table as it was when the last call started
    issued,     \* history: the RowIds first_row/next_row have been able to hand out
    graph,      \* Graph: its tables (its union-find is uf)
    made,       \* history: the ids makeset has returned, in call order
    twin,       \* a second run of the same calls (its graph and union-find)
    call        \* history: the last completed call, its arguments and its result

vars == <<uf, pre_uf, table, pre_table, issued, graph, made, twin, call>>

(***************************************************************************)
(* Bounds of the exploration.                                              *)
(***************************************************************************)
MaxClasses == 4     \* makeset is explored up to this many classes
MaxSlots == 4       \* push_row is explored up to this many slots per table
MaxGraphClasses == 3    \* Graph::makeset is explored up to this many classes
MaxGraphSlots == 2      \* Graph::insert is explored up to this many slots in all

NoCall == [name |-> "none"]

\* No second run is kept.
NoTwin == << >>

\* A second run before its first call.
TwinStart == [graph |-> "Graph::new", uf |-> << >>, returned |-> TRUE]

(***************************************************************************)
(* UnionFind                                                               *)
(***************************************************************************)
num_classes(v) == Len(v)

Ids(v) == 0 .. (Len(v) - 1)

parent(v, id) == v[id + 1]

set_parent(v, id, p) == [v EXCEPT ![id + 1] = p]

new == << >>

new_all_not_equals(amount) == [i \in 1 .. amount |-> i - 1]

new_all_equals(amount) == [i \in 1 .. amount |-> 0]

\* makeset with the returned id taken from the length after the push.
makeset_len_after_push(v) == [vec |-> Append(v, Len(v)), ret |-> Len(v) + 1]

\* makeset: push a cell holding its own index, return the index.
makeset(v) == [vec |-> Append(v, Len(v)), ret |-> Len(v)]

\* find that returns the parent of its argument without walking further.
find_loop_no_walk(v, id, fuel) == [vec |-> v, ret |-> parent(v, id)]

\* find that compresses by making its argument its own parent.
find_loop_detach(v, id, fuel) == [vec |-> set_parent(v, id, id), ret |-> id]

\* find with `if` in place of `while`: one halving step, then return.
find_loop_once(v, id, fuel) ==
    IF id # parent(v, id)
    THEN LET v1 == set_parent(v, id, parent(v, parent(v, id)))
         IN  [vec |-> v1, ret |-> parent(v1, id)]
    ELSE [vec |-> v, ret |-> id]

\* The while loop of find, one iteration per unfolding.  `fuel` bounds the
\* unfolding; a loop that is still running when it is used up is reported
\* as ret = -1 (the loop of the code would not have returned).
RECURSIVE find_loop(_, _, _)
find_loop(v, id, fuel) ==
    IF id # parent(v, id)
    THEN IF fuel = 0
         THEN [vec |-> v, ret |-> -1]
         ELSE LET v1 == set_parent(v, id, parent(v, parent(v, id)))
              IN  find_loop(v1, parent(v1, id), fuel - 1)
    ELSE [vec |-> v, ret |-> id]

find(v, id) == find_loop(v, id, Len(v) + 1)

\* merge with the `break` outside the root test: the first pointer is
\* redirected and the loop ends without walking up to the roots.
merge_loop_break_early(v, x, y, fuel) ==
    IF parent(v, x) # parent(v, y)
    THEN IF parent(v, x) > parent(v, y)
         THEN [vec |-> set_parent(v, x, parent(v, y)), x |-> x]
         ELSE [vec |-> set_parent(v, y, parent(v, x)), x |-> x]
    ELSE [vec |-> v, x |-> x]

\* The while loop of merge; the result carries the final value of x.
RECURSIVE merge_loop(_, _, _, _)
merge_loop(v, x, y, fuel) ==
    IF parent(v, x) # parent(v, y)
    THEN IF fuel = 0
         THEN [vec |-> v, x |-> -1]
         ELSE IF parent(v, x) > parent(v, y)
              THEN IF x = parent(v, x)
                   THEN [vec |-> set_parent(v, x, parent(v, y)), x |-> x]
                   ELSE merge_loop(set_parent(v, x, parent(v, y)),
                                   parent(v, x), y, fuel - 1)
              ELSE IF y = parent(v, y)
                   THEN [vec |-> set_parent(v, y, parent(v, x)), x |-> x]
                   ELSE merge_loop(set_parent(v, y, parent(v, x)),
                                   x, parent(v, y), fuel - 1)
    ELSE [vec |-> v, x |-> x]

\* merge with the comparison turned round: the root with the smaller id
\* is pointed at the root with the larger one.
merge_larger_root_wins(v, x, y) ==
    LET a == find(v, x).ret
        b == find(v, y).ret
    IN  IF a = b THEN [vec |-> v, ret |-> a]
        ELSE IF a < b THEN [vec |-> set_parent(v, a, b), ret |-> b]
             ELSE [vec |-> set_parent(v, b, a), ret |-> a]

\* UnionFind::merge
merge(v, x, y) ==
    LET r == merge_loop(v, x, y, 2 * Len(v) + 2)
    IN  [vec |-> r.vec,
         ret |-> IF r.x = -1 THEN -1 ELSE parent(r.vec, r.x)]

(***************************************************************************)
(* Vocabulary of the properties: the class of an id is the set of ids      *)
(* whose parent chains end in the same self-parent cell.                   *)
(***************************************************************************)
RECURSIVE chase(_, _, _)
chase(v, id, fuel) ==
    IF parent(v, id) = id THEN id
    ELSE IF fuel = 0 THEN -1
    ELSE chase(v, parent(v, id), fuel - 1)

Rep(v, id) == chase(v, id, Len(v))

Equiv(v, a, b) == Rep(v, a) = Rep(v, b)

Class(v, a) == {i \in Ids(v) : Equiv(v, i, a)}

(***************************************************************************)
(* The union-find on its own: makeset / find / merge in any order.         *)
(***************************************************************************)
\* UnionFind == UnionFind, the derived PartialEq: the two vectors of parent
\* cells are equal element by element.
union_find_eq(a, b) ==
    /\ Len(a) = Len(b)
    /\ \A i \in 1 .. Len(a) : a[i] = b[i]

UFInit ==
    /\ uf = new
    /\ pre_uf = new
    /\ table = << >>
    /\ pre_table = << >>
    /\ issued = {}
    /\ graph = << >>
    /\ made = << >>
    /\ twin = NoTwin
    /\ call = NoCall

UFMakeset ==
    /\ num_classes(uf) < MaxClasses
    /\ LET r == makeset(uf)
       IN  /\ uf' = r.vec
           /\ made' = Append(made, r.ret)
           /\ call' = [name |-> "makeset", ret |-> r.ret]
    /\ pre_uf' = uf
    /\ UNCHANGED <<twin, table, pre_table, issued, graph>>

UFFind ==
    \E id \in Ids(uf) :
        /\ LET r == find(uf, id)
           IN  /\ uf' = r.vec
               /\ call' = [name |-> "find", a |-> id, ret |-> r.ret]
        /\ pre_uf' = uf
        /\ UNCHANGED <<twin, table, pre_table, issued, graph, made>>

UFMerge ==
    \E a \in Ids(uf), b \in Ids(uf) :
        /\ LET r == merge(uf, a, b)
           IN  /\ uf' = r.vec
               /\ call' = [name |-> "merge", a |-> a, b |-> b, ret |-> r.ret]
        /\ pre_uf' = uf
        /\ UNCHANGED <<twin, table, pre_table, issued, graph, made>>

UFNext == UFMakeset \/ UFFind \/ UFMerge

SpecUF == UFInit /\ [][UFNext]_vars

(***************************************************************************)
(* Table<DET_COLS, DEP_COLS>                                               *)
(*                                                                         *)
(* A table is a record: D and P are the const generics DET_COLS and        *)
(* DEP_COLS, contents is the row vector (slot i at index i + 1, a pair     *)
(* <<det, dep>> of column tuples), determine_map maps a determinant to the RowId of the     *)
(* slot its key and value references point into, and the two counters.     *)
(***************************************************************************)
\* A u32 column is the pair <<high 16 bits, low 16 bits>> of its value, so
\* that all 2^32 bit patterns are distinct values of the model.
Word(n) == << n \div 65536, n % 65536 >>

EMPTY == << 65535, 65535 >>      \* 0xFFFFFFFF

None == -1      \* Option::None of first_row / next_row

Tombstone(D, P) == << [i \in 1 .. D |-> EMPTY], [i \in 1 .. P |-> EMPTY] >>

table_new(D, P) ==
    [D |-> D, P |-> P,
     contents |-> << >>,
     determine_map |-> << >>,
     num_allocated_rows |-> 0,
     num_free_rows |-> 0]

get_row(t, row) == t.contents[row + 1]

\* The dependent a map entry refers to: the entry holds &row.1 of its slot.
mapped_dependent(t, det) == get_row(t, t.determine_map[det])[2]

\* push_row taking a tombstoned slot when there is one, as a free list
\* would, and the tail otherwise.
push_row_recycle(t, determinant, dependent) ==
    LET free == {i \in 1 .. Len(t.contents) :
                    t.contents[i] = Tombstone(t.D, t.P)}
        slot == IF free = {} THEN Len(t.contents) + 1
                ELSE CHOOSE i \in free : \A j \in free : i <= j
    IN  [table |->
            [t EXCEPT
                !.num_allocated_rows = @ + 1,
                !.contents = IF free = {}
                             THEN Append(@, <<determinant, dependent>>)
                             ELSE [@ EXCEPT ![slot] =
                                                <<determinant, dependent>>],
                !.determine_map =
                    [d \in (DOMAIN @) \cup {determinant} |->
                        IF d = determinant THEN slot - 1 ELSE @[d]]],
         ret |-> dependent]

push_row(t, determinant, dependent) ==
    LET idx == Len(t.contents)
    IN  [table |->
            [t EXCEPT
                !.num_allocated_rows = @ + 1,
                !.contents = Append(@, <<determinant, dependent>>),
                !.determine_map =
                    [d \in (DOMAIN @) \cup {determinant} |->
                        IF d = determinant THEN idx ELSE @[d]]],
         ret |-> dependent]

delete_row(t, row) ==
    IF get_row(t, row)[1] \in DOMAIN t.determine_map
    THEN [table |->
            [t EXCEPT
                !.determine_map =
                    [d \in (DOMAIN @) \ {get_row(t, row)[1]} |-> @[d]],
                !.num_allocated_rows = @ - 1,
                !.num_free_rows = @ + 1,
                !.contents[row + 1] = Tombstone(t.D, t.P)],
          ret |-> TRUE]
    ELSE [table |-> t, ret |-> FALSE]

\* The hit branch writing the merged dependent into the resident slot:
\* no slot is tombstoned and none is appended.
insert_row_hit_in_place(t, determinant, merged_dep) ==
    [table |-> [t EXCEPT !.contents[t.determine_map[determinant] + 1] =
                             <<determinant, merged_dep>>],
     ret |-> merged_dep]

\* insert_row, the branch taken when determine_map has the determinant:
\* delete_row(prior), then push_row of the merged dependent.
insert_row_hit(t, determinant, merged_dep) ==
    push_row(delete_row(t, t.determine_map[determinant]).table,
             determinant, merged_dep)

\* A closure that keeps the proposed dependent instead.
keep_proposed(new_dep, old_dep) == new_dep

\* The closure |_, x| *x of the tests: keep the resident dependent.
keep_resident(new_dep, old_dep) == old_dep

\* The closure handing back the proposed dependent instead of the resident.
insert_closure_new_dep(new_dep, old_dep) == << new_dep[1] >>

\* The value the closure of Graph::insert hands back to insert_row; the
\* merge it makes on the way is in graph_insert.
insert_closure_dep(new_dep, old_dep) == << old_dep[1] >>

\* The call merge(dependent, in_table_dep) of insert_row: the closure
\* argument is passed by name.
call_merge(merge_fn, new_dep, old_dep) ==
    CASE merge_fn = "keep_resident" -> keep_resident(new_dep, old_dep)
      [] merge_fn = "insert_closure" -> insert_closure_dep(new_dep, old_dep)

\* Table::insert_row
insert_row(t, determinant, dependent, merge_fn) ==
    IF determinant \in DOMAIN t.determine_map
    THEN insert_row_hit(t, determinant,
                        call_merge(merge_fn, dependent,
                                   mapped_dependent(t, determinant)))
    ELSE push_row(t, determinant, dependent)

\* The slots first_row / next_row / iter do not skip.
LiveRows(t) ==
    {idx \in 0 .. (Len(t.contents) - 1) :
        get_row(t, idx) # Tombstone(t.D, t.P)}

\* The live rows holding determinant det.
LiveWith(t, det) == {idx \in LiveRows(t) : get_row(t, idx)[1] = det}

Least(S) == CHOOSE m \in S : \A n \in S : m <= n

first_row(t) ==
    IF LiveRows(t) = {} THEN None ELSE Least(LiveRows(t))

\* next_row scanning from the slot after the next one.
next_row_skip(t, row) ==
    LET later == {idx \in LiveRows(t) : idx > row + 1}
    IN  IF later = {} THEN None ELSE Least(later)

next_row(t, row) ==
    LET later == {idx \in LiveRows(t) : idx > row}
    IN  IF later = {} THEN None ELSE Least(later)

\* Table::iter: the slots in order, tombstones filtered out.
iter(t) == SelectSeq(t.contents, LAMBDA row : row # Tombstone(t.D, t.P))

(***************************************************************************)
(* A table on its own: insert_row (keeping the resident dependent) and     *)
(* delete_row in any order, on a RowId the caller got from first_row or    *)
(* next_row at some earlier time.                                          *)
(***************************************************************************)
Shapes == { <<0, 1>>, <<1, 1>>, <<2, 1>>, <<1, 2>> }

DetVals == {Word(0), EMPTY}

DepVals == {Word(1), Word(2)}

Tuples(n, S) == [1 .. n -> S]

TableInit ==
    /\ \E shape \in Shapes :
           /\ table = table_new(shape[1], shape[2])
           /\ pre_table = table_new(shape[1], shape[2])
    /\ issued = {}
    /\ uf = new
    /\ pre_uf = new
    /\ graph = << >>
    /\ made = << >>
    /\ twin = NoTwin
    /\ call = NoCall

TableInsert ==
    \E det \in Tuples(table.D, DetVals), dep \in Tuples(table.P, DepVals) :
        /\ Len(table.contents) < MaxSlots
        /\ LET r == insert_row(table, det, dep, "keep_resident")
           IN  /\ table' = r.table
               /\ issued' = issued \cup LiveRows(r.table)
               /\ call' = [name |-> "insert_row", det |-> det, dep |-> dep,
                           ret |-> r.ret]
        /\ pre_table' = table
        /\ UNCHANGED <<twin, uf, pre_uf, graph, made>>

TableDelete ==
    \E row \in issued :
        /\ LET r == delete_row(table, row)
           IN  /\ table' = r.table
               /\ call' = [name |-> "delete_row", row |-> row, ret |-> r.ret]
        /\ pre_table' = table
        /\ UNCHANGED <<twin, uf, pre_uf, graph, made, issued>>

TableNext == TableInsert \/ TableDelete

SpecTable == TableInit /\ [][TableNext]_vars

(***************************************************************************)
(* SSA terms and their column layout (imp/src/ssa.rs).                     *)
(*                                                                         *)
(* A Term is a record with a tag and the fields of its variant.  The       *)
(* transmutes of the encoders are bit reinterpretations: a ClassId or a    *)
(* u32 index is its value as a word, an i32 is its two's complement.       *)
(***************************************************************************)
ClassIdToWord(id) == Word(id)

WordToClassId(w) == w[1] * 65536 + w[2]

U32ToWord(n) == Word(n)

WordToU32(w) == w[1] * 65536 + w[2]

\* A conversion that stores every negative literal as 0.
I32ToWord_clamp(value) == Word(IF value >= 0 THEN value ELSE 0)

I32ToWord(value) ==
    IF value >= 0
    THEN Word(value)
    ELSE LET low31 == (value + 2147483647) + 1      \* value + 2^31
         IN  << 32768 + (low31 \div 65536), low31 % 65536 >>

WordToI32(w) ==
    IF w[1] < 32768
    THEN w[1] * 65536 + w[2]
    ELSE (((w[1] - 32768) * 65536 + w[2]) - 2147483647) - 1

Constant(value, root) == [tag |-> "Constant", value |-> value, root |-> root]
Param(index, root) == [tag |-> "Param", index |-> index, root |-> root]
Start(root) == [tag |-> "Start", root |-> root]
Region(lhs, rhs, root) ==
    [tag |-> "Region", lhs |-> lhs, rhs |-> rhs, root |-> root]
Branch(pred, cond, root) ==
    [tag |-> "Branch", pred |-> pred, cond |-> cond, root |-> root]
ControlProj(pred, index, root) ==
    [tag |-> "ControlProj", pred |-> pred, index |-> index, root |-> root]
Finish(pred, value, root) ==
    [tag |-> "Finish", pred |-> pred, value |-> value, root |-> root]
Phi(region, lhs, rhs, root) ==
    [tag |-> "Phi", region |-> region, lhs |-> lhs, rhs |-> rhs, root |-> root]
Add(lhs, rhs, root) ==
    [tag |-> "Add", lhs |-> lhs, rhs |-> rhs, root |-> root]

constant_encode(term) ==
    << <<I32ToWord(term.value)>>, <<ClassIdToWord(term.root)>> >>
param_encode(term) ==
    << <<U32ToWord(term.index)>>, <<ClassIdToWord(term.root)>> >>
start_encode(term) ==
    << << >>, <<ClassIdToWord(term.root)>> >>
region_encode(term) ==
    << <<ClassIdToWord(term.lhs), ClassIdToWord(term.rhs)>>,
       <<ClassIdToWord(term.root)>> >>
branch_encode(term) ==
    << <<ClassIdToWord(term.pred), ClassIdToWord(term.cond)>>,
       <<ClassIdToWord(term.root)>> >>
control_proj_encode(term) ==
    << <<ClassIdToWord(term.pred), U32ToWord(term.index)>>,
       <<ClassIdToWord(term.root)>> >>
finish_encode(term) ==
    << <<ClassIdToWord(term.pred), ClassIdToWord(term.value)>>,
       <<ClassIdToWord(term.root)>> >>
phi_encode(term) ==
    << <<ClassIdToWord(term.region), ClassIdToWord(term.lhs),
         ClassIdToWord(term.rhs)>>,
       <<ClassIdToWord(term.root)>> >>
add_encode(term) ==
    << <<ClassIdToWord(term.lhs), ClassIdToWord(term.rhs)>>,
       <<ClassIdToWord(term.root)>> >>

constant_decode(det, dep) ==
    Constant(WordToI32(det[1]), WordToClassId(dep[1]))
param_decode(det, dep) ==
    Param(WordToU32(det[1]), WordToClassId(dep[1]))
start_decode(det, dep) ==
    Start(WordToClassId(dep[1]))
region_decode(det, dep) ==
    Region(WordToClassId(det[1]), WordToClassId(det[2]), WordToClassId(dep[1]))
branch_decode(det, dep) ==
    Branch(WordToClassId(det[1]), WordToClassId(det[2]), WordToClassId(dep[1]))
control_proj_decode(det, dep) ==
    ControlProj(WordToClassId(det[1]), WordToU32(det[2]), WordToClassId(dep[1]))
finish_decode(det, dep) ==
    Finish(WordToClassId(det[1]), WordToClassId(det[2]), WordToClassId(dep[1]))
phi_decode(det, dep) ==
    Phi(WordToClassId(det[1]), WordToClassId(det[2]), WordToClassId(det[3]),
        WordToClassId(dep[1]))
add_decode(det, dep) ==
    Add(WordToClassId(det[1]), WordToClassId(det[2]), WordToClassId(dep[1]))

\* The (encode, decode) pair Graph uses with each of its term tables.
encode(term) ==
    CASE term.tag = "Constant" -> constant_encode(term)
      [] term.tag = "Param" -> param_encode(term)
      [] term.tag = "Start" -> start_encode(term)
      [] term.tag = "Region" -> region_encode(term)
      [] term.tag = "Branch" -> branch_encode(term)
      [] term.tag = "ControlProj" -> control_proj_encode(term)
      [] term.tag = "Finish" -> finish_encode(term)
      [] term.tag = "Phi" -> phi_encode(term)
      [] term.tag = "Add" -> add_encode(term)

decode(tag, det, dep) ==
    CASE tag = "Constant" -> constant_decode(det, dep)
      [] tag = "Param" -> param_decode(det, dep)
      [] tag = "Start" -> start_decode(det, dep)
      [] tag = "Region" -> region_decode(det, dep)
      [] tag = "Branch" -> branch_decode(det, dep)
      [] tag = "ControlProj" -> control_proj_decode(det, dep)
      [] tag = "Finish" -> finish_decode(det, dep)
      [] tag = "Phi" -> phi_decode(det, dep)
      [] tag = "Add" -> add_decode(det, dep)

\* ENode::root
root(term) == term.root

\* canonicalize that replaces the root alone and leaves the children.
canonicalize_root_only(term, v) ==
    LET r == find(v, term.root)
    IN  [term |-> [term EXCEPT !.root = r.ret], uf |-> r.vec]

\* ENode::canonicalize: every ClassId field is replaced by its find, the
\* finds run in field order on the same union-find (find compresses).
canonicalize(term, v) ==
    CASE term.tag \in {"Constant", "Param", "Start"} ->
            LET r == find(v, term.root)
            IN  [term |-> [term EXCEPT !.root = r.ret], uf |-> r.vec]
      [] term.tag \in {"Region", "Add"} ->
            LET l == find(v, term.lhs)
                h == find(l.vec, term.rhs)
                r == find(h.vec, term.root)
            IN  [term |-> [term EXCEPT !.lhs = l.ret, !.rhs = h.ret,
                                       !.root = r.ret],
                 uf |-> r.vec]
      [] term.tag = "Branch" ->
            LET p == find(v, term.pred)
                c == find(p.vec, term.cond)
                r == find(c.vec, term.root)
            IN  [term |-> [term EXCEPT !.pred = p.ret, !.cond = c.ret,
                                       !.root = r.ret],
                 uf |-> r.vec]
      [] term.tag = "ControlProj" ->
            LET p == find(v, term.pred)
                r == find(p.vec, term.root)
            IN  [term |-> [term EXCEPT !.pred = p.ret, !.root = r.ret],
                 uf |-> r.vec]
      [] term.tag = "Finish" ->
            LET p == find(v, term.pred)
                c == find(p.vec, term.value)
                r == find(c.vec, term.root)
            IN  [term |-> [term EXCEPT !.pred = p.ret, !.value = c.ret,
                                       !.root = r.ret],
                 uf |-> r.vec]
      [] term.tag = "Phi" ->
            LET g == find(v, term.region)
                l == find(g.vec, term.lhs)
                h == find(l.vec, term.rhs)
                r == find(h.vec, term.root)
            IN  [term |-> [term EXCEPT !.region = g.ret, !.lhs = l.ret,
                                       !.rhs = h.ret, !.root = r.ret],
                 uf |-> r.vec]

(***************************************************************************)
(* Graph (imp/src/ssa.rs) and the rebuilder (db/src/rebuild.rs).           *)
(*                                                                         *)
(* A graph is a record of tables, one field per table of struct Graph;     *)
(* its union-find is the variable uf.                                      *)
(***************************************************************************)
graph_new ==
    [constant |-> table_new(1, 1),
     param |-> table_new(1, 1),
     start |-> table_new(0, 1),
     region |-> table_new(2, 1),
     branch |-> table_new(2, 1),
     control_proj |-> table_new(2, 1),
     finish |-> table_new(2, 1),
     phi |-> table_new(3, 1),
     add |-> table_new(2, 1),
     interval |-> table_new(1, 2)]

\* The term tables in the order terms(), rebuild() and dump() go through.
TermTables ==
    << "Constant", "Param", "Start", "Region", "Branch", "ControlProj",
       "Finish", "Phi", "Add" >>

table_of(tag) ==
    CASE tag = "Constant" -> "constant"
      [] tag = "Param" -> "param"
      [] tag = "Start" -> "start"
      [] tag = "Region" -> "region"
      [] tag = "Branch" -> "branch"
      [] tag = "ControlProj" -> "control_proj"
      [] tag = "Finish" -> "finish"
      [] tag = "Phi" -> "phi"
      [] tag = "Add" -> "add"

\* Graph::insert with a closure that does not merge the two roots.
graph_insert_no_merge(g, v, term) ==
    LET t == g[table_of(term.tag)]
        det == encode(term)[1]
        dep == encode(term)[2]
        r == insert_row(t, det, dep, "insert_closure")
    IN  [graph |-> [g EXCEPT ![table_of(term.tag)] = r.table],
         uf |-> v,
         ret |-> decode(term.tag, det, r.ret)]

\* Graph::insert that allocates a class of its own for a row it appends
\* on a miss.
graph_insert_alloc(g, v, term) ==
    LET t == g[table_of(term.tag)]
        det == encode(term)[1]
        dep == encode(term)[2]
        r == insert_row(t, det, dep, "insert_closure")
    IN  [graph |-> [g EXCEPT ![table_of(term.tag)] = r.table],
         uf |-> IF det \in DOMAIN t.determine_map THEN v ELSE makeset(v).vec,
         ret |-> decode(term.tag, det, r.ret)]

\* Graph::insert.  On a hit insert_row calls the closure, which merges the
\* proposed root with the resident one when they differ.
graph_insert(g, v, term) ==
    LET t == g[table_of(term.tag)]
        det == encode(term)[1]
        dep == encode(term)[2]
        hit == det \in DOMAIN t.determine_map
        v1 == IF hit /\ dep # mapped_dependent(t, det)
              THEN merge(v, WordToClassId(dep[1]),
                         WordToClassId(mapped_dependent(t, det)[1])).vec
              ELSE v
        r == insert_row(t, det, dep, "insert_closure")
    IN  [graph |-> [g EXCEPT ![table_of(term.tag)] = r.table],
         uf |-> v1,
         ret |-> decode(term.tag, det, r.ret)]

\* Table::iter, decoded: the live rows of one table in slot order.
table_terms(tag, t) ==
    LET rows == SelectSeq(t.contents,
                          LAMBDA row : row # Tombstone(t.D, t.P))
    IN  [i \in 1 .. Len(rows) |-> decode(tag, rows[i][1], rows[i][2])]

RECURSIVE chain_terms(_, _)
chain_terms(g, i) ==
    IF i > Len(TermTables) THEN << >>
    ELSE table_terms(TermTables[i], g[table_of(TermTables[i])])
             \o chain_terms(g, i + 1)

\* Graph::terms
terms(g) == chain_terms(g, 1)

\* Table::dump: one line per row, walking first_row / next_row.  A line
\* `symbol(det) -> dep` is the triple of its three parts.
RECURSIVE dump_rows(_, _, _, _)
dump_rows(symbol, t, maybe_row_id, s) ==
    IF maybe_row_id = None
    THEN s
    ELSE dump_rows(symbol, t, next_row(t, maybe_row_id),
                   Append(s, <<symbol, get_row(t, maybe_row_id)[1],
                               get_row(t, maybe_row_id)[2]>>))

table_dump(symbol, t) == dump_rows(symbol, t, first_row(t), << >>)

\* The symbols Graph::new gives the tables, in the order of TermTables.
Symbols ==
    << "cons", "param", "start", "region", "branch", "pi", "finish", "phi",
       "+" >>

\* Graph::dump: the nine table dumps, concatenated.
RECURSIVE chain_dumps(_, _)
chain_dumps(g, i) ==
    IF i > Len(TermTables) THEN << >>
    ELSE table_dump(Symbols[i], g[table_of(TermTables[i])])
             \o chain_dumps(g, i + 1)

dump(g) == chain_dumps(g, 1)

\* rebuild_table, the inner while loop: one pass over the rows from row_id.
RECURSIVE rebuild_table_pass(_, _, _, _, _)
rebuild_table_pass(tag, t, v, row_id, changed) ==
    IF row_id = None
    THEN [table |-> t, uf |-> v, changed |-> changed]
    ELSE LET row == get_row(t, row_id)
             term == decode(tag, row[1], row[2])
             canon == canonicalize(term, v)
         IN  IF term # canon.term
             THEN LET canon_row == encode(canon.term)
                      ins == insert_row(delete_row(t, row_id).table,
                                        canon_row[1], canon_row[2],
                                        "keep_resident")
                      resident_term == decode(tag, canon_row[1], ins.ret)
                      v1 == IF ins.ret # canon_row[2]
                            THEN merge(canon.uf, root(canon.term),
                                       root(resident_term)).vec
                            ELSE canon.uf
                  IN  rebuild_table_pass(tag, ins.table, v1,
                                         next_row(ins.table, row_id), TRUE)
             ELSE rebuild_table_pass(tag, t, canon.uf,
                                     next_row(t, row_id), changed)

\* rebuild_table, the outer loop: passes until one changes nothing.
\* rebuild_table_loop runs a pass, rebuild_table_exit is the loop's test on
\* what the pass left.
RECURSIVE rebuild_table_loop(_, _, _, _)
\* The loop's test returning `changed` of the last pass in place of
\* ever_changed.
rebuild_table_exit_last_pass(tag, pass, ever_changed) ==
    IF ~pass.changed
    THEN [table |-> pass.table, uf |-> pass.uf, ret |-> pass.changed]
    ELSE rebuild_table_loop(tag, pass.table, pass.uf, TRUE)

rebuild_table_exit(tag, pass, ever_changed) ==
    IF ~pass.changed
    THEN [table |-> pass.table, uf |-> pass.uf, ret |-> ever_changed]
    ELSE rebuild_table_loop(tag, pass.table, pass.uf, TRUE)

rebuild_table_loop(tag, t, v, ever_changed) ==
    rebuild_table_exit(tag,
                       rebuild_table_pass(tag, t, v, first_row(t), FALSE),
                       ever_changed)

rebuild_table(tag, t, v) == rebuild_table_loop(tag, t, v, FALSE)

\* corebuild, `for term in &terms`: bucket each term, canonicalized under
\* last_uf, by the index of its own root.  There is one bucket per class
\* of last_uf.
RECURSIVE corebuild_observe(_, _, _, _)
corebuild_observe(all_terms, i, last_uf, observations) ==
    IF i > Len(all_terms) \/ Len(observations) # num_classes(last_uf)
    THEN [last_uf |-> last_uf, observations |-> observations]
    ELSE LET canon == canonicalize(all_terms[i], last_uf)
         IN  corebuild_observe(
                 all_terms, i + 1, canon.uf,
                 [observations EXCEPT ![root(all_terms[i]) + 1] =
                                          @ \cup {canon.term}])

\* A HashSet's hasher decides the order in which iter() yields its
\* elements.  Two layouts are told apart, one the reverse of the other.
Hashers == {"forward", "reverse"}

\* HashSet::iter under a hasher: the elements as a sequence.
RECURSIVE hash_set_iter(_, _)
hash_set_iter(set, hasher) ==
    IF set = {}
    THEN << >>
    ELSE LET v == CHOOSE e \in set : TRUE
         IN  IF hasher = "forward"
             THEN <<v>> \o hash_set_iter(set \ {v}, hasher)
             ELSE Append(hash_set_iter(set \ {v}, hasher), v)

\* An `all` that stops after the first element the iteration yields.
iter_first_absent(order, i, other) ==
    i > Len(order) \/ order[i] \notin other

\* is_disjoint, `iter().all(|v| !other.contains(v))`: walk the elements in
\* iteration order and stop at the first one `other` contains.
RECURSIVE iter_all_absent(_, _, _)
iter_all_absent(order, i, other) ==
    IF i > Len(order)
    THEN TRUE
    ELSE IF order[i] \in other
         THEN FALSE
         ELSE iter_all_absent(order, i + 1, other)

\* HashSet::is_disjoint: iterate the smaller set, look up in the larger.
is_disjoint(self, other, hasher) ==
    IF Cardinality(self) <= Cardinality(other)
    THEN iter_all_absent(hash_set_iter(self, hasher), 1, other)
    ELSE iter_all_absent(hash_set_iter(other, hasher), 1, self)

\* corebuild, `for rhs in 0..num_classes` for one lhs.
RECURSIVE corebuild_merge_rhs(_, _, _, _, _)
corebuild_merge_rhs(observations, hasher, lhs, rhs, next_uf) ==
    IF rhs >= num_classes(next_uf)
    THEN next_uf
    ELSE corebuild_merge_rhs(
             observations, hasher, lhs, rhs + 1,
             IF ~is_disjoint(observations[lhs + 1], observations[rhs + 1],
                             hasher)
             THEN merge(next_uf, lhs, rhs).vec
             ELSE next_uf)

\* corebuild, `for lhs in 0..num_classes`.
RECURSIVE corebuild_merge_pairs(_, _, _, _)
corebuild_merge_pairs(observations, hasher, lhs, next_uf) ==
    IF lhs >= num_classes(next_uf)
    THEN next_uf
    ELSE corebuild_merge_pairs(
             observations, hasher, lhs + 1,
             corebuild_merge_rhs(observations, hasher, lhs, 0, next_uf))

\* corebuild, the refinement loop.  last_uf == next_uf is the derived
\* PartialEq: equality of the two parent vectors.  An iteration is a
\* function of last_uf alone (next_uf and the buckets start afresh), so the
\* loop never exits exactly when a last_uf comes back: `seen` holds the
\* values last_uf has had at the top of the loop.
RECURSIVE corebuild_loop(_, _, _, _, _)
corebuild_loop(all_terms, n, last_uf, seen, hasher) ==
    LET obs == corebuild_observe(all_terms, 1, last_uf, [i \in 1 .. n |-> {}])
        next_uf == corebuild_merge_pairs(obs.observations, hasher, 0,
                                         new_all_not_equals(n))
    IN  IF union_find_eq(obs.last_uf, next_uf)
        THEN [last_uf |-> obs.last_uf, returned |-> TRUE]
        ELSE IF next_uf \in seen
             THEN [last_uf |-> next_uf, returned |-> FALSE]
             ELSE corebuild_loop(all_terms, n, next_uf, seen \cup {next_uf},
                                 hasher)

\* corebuild handing the refined partition back in place of the caller's
\* union-find instead of merging into it.
corebuild_replace_uf(last_uf, v, idx, n) == last_uf

\* corebuild, the final loop: merge every id with its last_uf.find.
RECURSIVE corebuild_merge_canon(_, _, _, _)
corebuild_merge_canon(last_uf, v, idx, n) ==
    IF idx >= n \/ idx >= num_classes(v)
    THEN v
    ELSE LET canon == find(last_uf, idx)
         IN  corebuild_merge_canon(canon.vec, merge(v, idx, canon.ret).vec,
                                   idx + 1, n)

corebuild(all_terms, v, hasher) ==
    LET n == num_classes(v)
        fix == corebuild_loop(all_terms, n, new_all_equals(n),
                              {new_all_equals(n)}, hasher)
    IN  IF fix.returned
        THEN [uf |-> corebuild_merge_canon(fix.last_uf, v, 0, n),
              returned |-> TRUE]
        ELSE [uf |-> v, returned |-> FALSE]

\* An iteration of Graph::rebuild that rebuilds no table.
rebuild_tables_none(g, v, i, changed) ==
    [graph |-> g, uf |-> v, changed |-> changed]

\* Graph::rebuild, the nine rebuild calls of one iteration, in order:
\* rebuild_tables makes call number i, rebuild_tables_or folds its result
\* r into `changed` and goes on to the next.
RECURSIVE rebuild_tables(_, _, _, _)
rebuild_tables_or(g, i, changed, r) ==
    rebuild_tables([g EXCEPT ![table_of(TermTables[i])] = r.table],
                   r.uf, i + 1, r.ret \/ changed)

rebuild_tables(g, v, i, changed) ==
    IF i > Len(TermTables)
    THEN [graph |-> g, uf |-> v, changed |-> changed]
    ELSE rebuild_tables_or(
             g, i, changed,
             rebuild_table(TermTables[i], g[table_of(TermTables[i])], v))

\* Graph::rebuild: corebuild, then the table rebuilds (rebuild_iteration),
\* again while any of them changed a table (rebuild_exit).
\* returned = FALSE: corebuild does not come back.
RECURSIVE graph_rebuild(_, _, _)
rebuild_exit(tabs, hasher) ==
    IF ~tabs.changed
    THEN [graph |-> tabs.graph, uf |-> tabs.uf, returned |-> TRUE]
    ELSE graph_rebuild(tabs.graph, tabs.uf, hasher)

rebuild_iteration(g, v, core, hasher) ==
    IF ~core.returned
    THEN [graph |-> g, uf |-> v, returned |-> FALSE]
    ELSE rebuild_exit(rebuild_tables(g, core.uf, 1, FALSE), hasher)

graph_rebuild(g, v, hasher) ==
    rebuild_iteration(g, v, corebuild(terms(g), v, hasher), hasher)

(***************************************************************************)
(* A graph in use: makeset, find, merge, insert and rebuild in any order.  *)
(* insert is offered the terms of Constant, Param, Start, ControlProj and  *)
(* Add (the column layouts [i32], [u32], [], [class, u32] and              *)
(* [class, class]) over all allocated ids, with literal fields drawn from  *)
(* the sets below.  A rebuild that does not come back leaves the program   *)
(* inside it: nothing is called after it.  call.coarsened records whether  *)
(* the call put two ids into one class, call.again whether a rebuild was   *)
(* called right after a rebuild.                                           *)
(***************************************************************************)
ConstantValues == {-1, 5}

ParamIndexes == {0}

ProjIndexes == {0, 1}

InsertTerms(v) ==
    LET ids == Ids(v)
    IN  {Constant(c, r) : c \in ConstantValues, r \in ids}
        \cup {Param(i, r) : i \in ParamIndexes, r \in ids}
        \cup {Start(r) : r \in ids}
        \cup {ControlProj(a, i, r) : a \in ids, i \in ProjIndexes, r \in ids}
        \cup {Add(a, b, r) : a \in ids, b \in ids, r \in ids}

RECURSIVE SumSlots(_, _)
SumSlots(g, i) ==
    IF i > Len(TermTables) THEN 0
    ELSE Len(g[table_of(TermTables[i])].contents) + SumSlots(g, i + 1)

GraphSlots(g) == SumSlots(g, 1)

Running == ~(call.name = "rebuild" /\ ~call.returned)

GraphInit ==
    /\ graph = graph_new
    /\ uf = new
    /\ pre_uf = new
    /\ table = << >>
    /\ pre_table = << >>
    /\ issued = {}
    /\ made = << >>
    /\ twin = NoTwin
    /\ call = NoCall

Coarsened(v, w) ==
    \E a \in Ids(v), b \in Ids(v) : ~Equiv(v, a, b) /\ Equiv(w, a, b)

GraphMakeset ==
    /\ Running
    /\ num_classes(uf) < MaxGraphClasses
    /\ LET r == makeset(uf)
       IN  /\ uf' = r.vec
           /\ made' = Append(made, r.ret)
           /\ call' = [name |-> "makeset", ret |-> r.ret]
    /\ UNCHANGED <<twin, pre_uf, table, pre_table, issued, graph>>

GraphFind ==
    /\ Running
    /\ \E id \in Ids(uf) :
        /\ uf' = find(uf, id).vec
        /\ call' = [name |-> "find"]
        /\ UNCHANGED <<twin, pre_uf, table, pre_table, issued, graph, made>>

GraphMerge ==
    /\ Running
    /\ \E a \in Ids(uf), b \in Ids(uf) :
        /\ uf' = merge(uf, a, b).vec
        /\ call' = [name |-> "merge"]
        /\ UNCHANGED <<twin, pre_uf, table, pre_table, issued, graph, made>>

GraphInsert ==
    /\ Running
    /\ GraphSlots(graph) < MaxGraphSlots
    /\ \E term \in InsertTerms(uf) :
        /\ LET r == graph_insert(graph, uf, term)
           IN  /\ graph' = r.graph
               /\ uf' = r.uf
               /\ call' = [name |-> "insert", term |-> term, ret |-> r.ret,
                           coarsened |-> Coarsened(uf, r.uf)]
        /\ UNCHANGED <<twin, pre_uf, table, pre_table, issued, made>>

GraphRebuild ==
    /\ Running
    /\ \E hasher \in Hashers : \E r \in {graph_rebuild(graph, uf, hasher)} :
           /\ graph' = r.graph
           /\ uf' = r.uf
           /\ call' = [name |-> "rebuild", returned |-> r.returned,
                       coarsened |-> Coarsened(uf, r.uf),
                       again |-> call.name = "rebuild"]
    /\ UNCHANGED <<twin, pre_uf, table, pre_table, issued, made>>

GraphNext ==
    GraphMakeset \/ GraphFind \/ GraphMerge \/ GraphInsert \/ GraphRebuild

SpecGraph == GraphInit /\ [][GraphNext]_vars

(***************************************************************************)
(* Properties of the union-find.                                           *)
(***************************************************************************)
InClassOf(v, i, a) == i \in Ids(v) /\ a \in Ids(v) /\ Equiv(v, i, a)

\* C1: merge(a, b) unites exactly the classes of a and b.  Afterwards
\* find(a) = find(b); ids equivalent before the call are equivalent after
\* it; and two ids are equivalent after it only if they were equivalent
\* before, or one was in a's class and the other in b's class.
C1_MergeUnitesExactlyTwo ==
    call.name = "merge" =>
        LET a == call.a
            b == call.b
            fa == find(uf, a)
        IN  /\ fa.ret = find(fa.vec, b).ret
            /\ \A i, j \in Ids(pre_uf) :
                   Equiv(pre_uf, i, j) => Equiv(uf, i, j)
            /\ \A i, j \in Ids(uf) :
                   Equiv(uf, i, j) =>
                       \/ Equiv(pre_uf, i, j)
                       \/ InClassOf(pre_uf, i, a) /\ InClassOf(pre_uf, j, b)
                       \/ InClassOf(pre_uf, i, b) /\ InClassOf(pre_uf, j, a)

\* A merge of two different classes, called on a non-root a, while a third
\* class exists.
C1_Witness ==
    /\ call.name = "merge"
    /\ ~Equiv(pre_uf, call.a, call.b)
    /\ parent(pre_uf, call.a) # call.a
    /\ \E c \in Ids(pre_uf) :
           ~Equiv(pre_uf, c, call.a) /\ ~Equiv(pre_uf, c, call.b)
    /\ Equiv(uf, call.a, call.b)

\* C2: merge(a, b) returns the canonical representative of the united
\* class: the returned id is find(a) and find(b) evaluated right after.
C2_MergeReturnsRepresentative ==
    call.name = "merge" =>
        /\ call.ret = find(uf, call.a).ret
        /\ call.ret = find(uf, call.b).ret

\* C3: find(x) returns a self-parent id of x's class, and is idempotent:
\* find(find(x)) = find(x), and a second find(x) returns the same id.
C3_FindCanonicalIdempotent ==
    call.name = "find" =>
        /\ call.ret \in Ids(pre_uf)
        /\ Equiv(pre_uf, call.ret, call.a)
        /\ parent(uf, call.ret) = call.ret
        /\ find(uf, call.ret).ret = call.ret
        /\ find(uf, call.a).ret = call.ret

\* A find that started two or more parent steps below its root, and so
\* rewrote a parent pointer on the way.
C3_Witness ==
    /\ call.name = "find"
    /\ parent(pre_uf, call.a) # call.a
    /\ parent(pre_uf, parent(pre_uf, call.a)) # parent(pre_uf, call.a)
    /\ uf # pre_uf
    /\ call.ret = Rep(pre_uf, call.a)

\* C4: makeset allocates densely and monotonically.  The k-th call returns
\* k - 1, which is the previous num_classes; the new id is a singleton that
\* is its own representative; num_classes grows by one; find of every older
\* id is unchanged; no id is returned twice.
C4_MakesetDense ==
    /\ made = [k \in 1 .. Len(made) |-> k - 1]
    /\ call.name = "makeset" =>
        /\ call.ret = num_classes(pre_uf)
        /\ num_classes(uf) = num_classes(pre_uf) + 1
        /\ Class(uf, call.ret) = {call.ret}
        /\ find(uf, call.ret).ret = call.ret
        /\ \A i \in Ids(pre_uf) : find(uf, i).ret = find(pre_uf, i).ret

\* A makeset called after two classes had been merged.
C4_Witness ==
    /\ call.name = "makeset"
    /\ Len(made) >= 3
    /\ \E i \in Ids(pre_uf) : parent(pre_uf, i) # i

(***************************************************************************)
(* A graph of five classes: the ids are allocated, rows are inserted from  *)
(* RebuildTerms in any order, each while its determinant is not resident,  *)
(* classes are merged from RebuildMerges, and rebuild is called.  The      *)
(* terms are a control and data skeleton in which corebuild's partition    *)
(* refinement needs several rounds, and in which two ids are each the root *)
(* of two rows.  twin is a second run that makes the same calls; the two   *)
(* runs iterate their hash sets in opposite orders.                        *)
(***************************************************************************)
MaxRebuildClasses == 5

MaxRebuildSlots == 7

RebuildTerms ==
    {ControlProj(3, 1, 0), ControlProj(2, 1, 4), ControlProj(0, 0, 4),
     ControlProj(4, 0, 3), Add(4, 0, 2), Add(4, 1, 3), Add(3, 1, 1)}

RebuildMerges == {<<1, 2>>}

RbInit ==
    /\ graph = graph_new
    /\ uf = new
    /\ pre_uf = new
    /\ table = << >>
    /\ pre_table = << >>
    /\ issued = {}
    /\ made = << >>
    /\ twin = [TwinStart EXCEPT !.graph = graph_new, !.uf = new]
    /\ call = NoCall

RbMakeset ==
    /\ Running
    /\ num_classes(uf) < MaxRebuildClasses
    /\ LET r == makeset(uf)
       IN  /\ uf' = r.vec
           /\ made' = Append(made, r.ret)
           /\ call' = [name |-> "makeset", ret |-> r.ret]
    /\ twin' = [twin EXCEPT !.uf = makeset(twin.uf).vec]
    /\ UNCHANGED <<pre_uf, table, pre_table, issued, graph>>

RbInsert ==
    /\ Running
    /\ num_classes(uf) = MaxRebuildClasses
    /\ call.name # "rebuild"
    /\ GraphSlots(graph) < MaxRebuildSlots
    /\ \E term \in RebuildTerms :
        /\ LiveWith(graph[table_of(term.tag)],
                    encode(canonicalize(term, uf).term)[1]) = {}
        /\ \E r \in {graph_insert(graph, uf, term)} :
               /\ graph' = r.graph
               /\ uf' = r.uf
               /\ call' = [name |-> "insert", term |-> term, ret |-> r.ret,
                           coarsened |-> Coarsened(uf, r.uf)]
        /\ \E r \in {graph_insert(twin.graph, twin.uf, term)} :
               twin' = [twin EXCEPT !.graph = r.graph, !.uf = r.uf]
        /\ UNCHANGED <<pre_uf, table, pre_table, issued, made>>

RbMerge ==
    /\ Running
    /\ num_classes(uf) = MaxRebuildClasses
    /\ call.name # "rebuild"
    /\ \E pair \in RebuildMerges :
        /\ uf' = merge(uf, pair[1], pair[2]).vec
        /\ call' = [name |-> "merge"]
        /\ twin' = [twin EXCEPT !.uf = merge(twin.uf, pair[1], pair[2]).vec]
        /\ UNCHANGED <<pre_uf, table, pre_table, issued, graph, made>>

RbRebuild ==
    /\ Running
    /\ \E r \in {graph_rebuild(graph, uf, "forward")} :
           /\ graph' = r.graph
           /\ uf' = r.uf
           /\ call' = [name |-> "rebuild", returned |-> r.returned,
                       coarsened |-> Coarsened(uf, r.uf)]
    /\ \E r \in {graph_rebuild(twin.graph, twin.uf, "reverse")} :
           twin' = [graph |-> r.graph, uf |-> r.uf, returned |-> r.returned]
    /\ UNCHANGED <<pre_uf, table, pre_table, issued, made>>

RbNext == RbMakeset \/ RbInsert \/ RbMerge \/ RbRebuild

SpecRebuild == RbInit /\ [][RbNext]_vars

(***************************************************************************)
(* The abstract interpreter (ai.rs)                                        *)
(*                                                                         *)
(* An expression is a record with e in NumberLiteral, Variable, Add; a     *)
(* statement is a record with s in Assign, IfElse, While, Return, Block; a *)
(* block is a sequence of statements; an identifier is its IdentifierId.   *)
(* An AbstractStore is a function from identifiers to ClassIds, walked in  *)
(* increasing identifier order as the BTreeMap is.  The interpreter's      *)
(* state is a record c: the graph and its union-find, ctrl (the            *)
(* ControlLinker's cell), s (the store a statement or block hands back),   *)
(* ret (the ClassId a makeset, find or expression hands back) and          *)
(* diverged, set when a While statement's loop has re-evaluated its body   *)
(* MaxWhilePasses times without reaching its break.                        *)
(***************************************************************************)
MaxWhilePasses == 6

NumberLiteral(value) == [e |-> "NumberLiteral", value |-> value]
Variable(iden) == [e |-> "Variable", iden |-> iden]
AddExpr(lhs, rhs) == [e |-> "Add", lhs |-> lhs, rhs |-> rhs]

Assign(iden, expr) == [s |-> "Assign", iden |-> iden, expr |-> expr]
IfElse(cond, lhs, rhs) == [s |-> "IfElse", cond |-> cond, lhs |-> lhs, rhs |-> rhs]
While(cond, body) == [s |-> "While", cond |-> cond, body |-> body]
Return(expr) == [s |-> "Return", expr |-> expr]

\* The Option<BlockAST> of IfElse: None is the empty sequence, Some(block)
\* the sequence holding block.
NoBlock == << >>
SomeBlock(block) == << block >>

\* AbstractStore::insert.
store_insert(store, iden, id) ==
    [i \in DOMAIN store \cup {iden} |-> IF i = iden THEN id ELSE store[i]]

\* graph.makeset(): ret is the new id.
ai_makeset(c) ==
    [c EXCEPT !.uf = makeset(c.uf).vec, !.ret = makeset(c.uf).ret]

\* graph.insert(term); the returned term is dropped by every caller.
ai_insert(c, term) ==
    [c EXCEPT !.graph = graph_insert(c.graph, c.uf, term).graph,
              !.uf = graph_insert(c.graph, c.uf, term).uf]

\* `let root = graph.makeset(); graph.insert(Term { .., root });`:
\* ret is root.
insert_fresh(c, term) ==
    ai_insert(ai_makeset(c), [term EXCEPT !.root = makeset(c.uf).ret])

\* graph.find(ret).
ai_find(c) ==
    [c EXCEPT !.uf = find(c.uf, c.ret).vec, !.ret = find(c.uf, c.ret).ret]

\* ai_expr: ret is the class of the expression.
RECURSIVE ai_expr(_, _, _)
ai_expr_add(lhs, r) == ai_find(insert_fresh(r, Add(lhs, r.ret, 0)))

ai_expr_rhs(expr, in_s, l) == ai_expr_add(l.ret, ai_expr(expr.rhs, in_s, l))

ai_expr(expr, in_s, c) ==
    CASE expr.e = "NumberLiteral" ->
             ai_find(insert_fresh(c, Constant(expr.value, 0)))
      [] expr.e = "Variable" -> [c EXCEPT !.ret = in_s[expr.iden]]
      [] expr.e = "Add" -> ai_expr_rhs(expr, in_s, ai_expr(expr.lhs, in_s, c))

\* The record of the call of merge_down in progress is the last of
\* c.joins: its arguments, one step per identifier of lhs_s with the Phi
\* table and the number of classes before and after it, and the store it
\* returns.
join_open(region, lhs_s, rhs_s, c) ==
    [c EXCEPT !.joins = Append(@, [region |-> region, lhs_s |-> lhs_s,
                                   rhs_s |-> rhs_s, merged_s |-> << >>,
                                   steps |-> << >>])]

join_step(iden, before, c) ==
    [c EXCEPT !.joins[Len(c.joins)].steps =
        Append(@, [iden |-> iden,
                   phi |-> before.graph.phi,
                   n |-> num_classes(before.uf),
                   phi_after |-> c.graph.phi,
                   n_after |-> num_classes(c.uf),
                   uf_after |-> c.uf])]

join_close(merged_s, c) ==
    [c EXCEPT !.joins[Len(c.joins)].merged_s = merged_s]

\* A merge_down that lets through what only lhs_s holds.
RECURSIVE merge_down_from(_, _, _, _, _, _)
merge_down_keep_lhs(region, lhs_s, rhs_s, iden, merged_s, c) ==
    merge_down_from(region, lhs_s, rhs_s,
                    {i \in DOMAIN lhs_s : i > iden},
                    store_insert(merged_s, iden, lhs_s[iden]),
                    join_step(iden, c, c))

\* `if let Some(rhs) = rhs_s.get(iden)` failing: the identifier is skipped.
merge_down_skip(region, lhs_s, rhs_s, iden, merged_s, c) ==
    merge_down_from(region, lhs_s, rhs_s,
                    {i \in DOMAIN lhs_s : i > iden}, merged_s,
                    join_step(iden, c, c))

\* A merge_down that builds a Phi also where the two values are the same.
merge_down_always_phi(region, lhs_s, rhs_s, iden, merged_s, c) ==
    LET p == ai_find(insert_fresh(
                 c, Phi(region, lhs_s[iden], rhs_s[iden], 0)))
    IN  merge_down_from(region, lhs_s, rhs_s,
                        {i \in DOMAIN lhs_s : i > iden},
                        store_insert(merged_s, iden, p.ret),
                        join_step(iden, c, p))

\* `if lhs == rhs`: the value passes through.
merge_down_same(region, lhs_s, rhs_s, iden, merged_s, c) ==
    merge_down_from(region, lhs_s, rhs_s,
                    {i \in DOMAIN lhs_s : i > iden},
                    store_insert(merged_s, iden, lhs_s[iden]),
                    join_step(iden, c, c))

\* The closure merge_down: the identifiers of lhs_s still to visit are
\* idens; s is merged_s on return.
merge_down_phi(region, lhs_s, rhs_s, idens, merged_s, before, p) ==
    merge_down_from(region, lhs_s, rhs_s, idens \ {Least(idens)},
                    store_insert(merged_s, Least(idens), p.ret),
                    join_step(Least(idens), before, p))

merge_down_from(region, lhs_s, rhs_s, idens, merged_s, c) ==
    IF idens = {}
    THEN [join_close(merged_s, c) EXCEPT !.s = merged_s]
    ELSE LET iden == Least(idens)
         IN  IF iden \notin DOMAIN rhs_s
             THEN merge_down_skip(region, lhs_s, rhs_s, iden, merged_s, c)
             ELSE IF lhs_s[iden] = rhs_s[iden]
             THEN merge_down_same(region, lhs_s, rhs_s, iden, merged_s, c)
             ELSE merge_down_phi(
                      region, lhs_s, rhs_s, idens, merged_s, c,
                      ai_find(insert_fresh(
                          c, Phi(region, lhs_s[iden], rhs_s[iden], 0))))

merge_down(region, lhs_s, rhs_s, c) ==
    merge_down_from(region, lhs_s, rhs_s, DOMAIN lhs_s, << >>,
                    join_open(region, lhs_s, rhs_s, c))

RECURSIVE ai_stmt(_, _, _)
\* ai_block: the statements from number i on; s is the running store.
RECURSIVE ai_block_from(_, _, _)
ai_block_from(block, i, c) ==
    IF i > Len(block) \/ c.diverged
    THEN c
    ELSE ai_block_from(block, i + 1, ai_stmt(block[i], c.s, c))

ai_block(block, in_s, c) == ai_block_from(block, 1, [c EXCEPT !.s = in_s])

\* IfElse, from the Region insert on: r is the state after the else side.
ai_if_region(lhs_s, lhs_root, r) ==
    LET g == insert_fresh(r, Region(lhs_root, r.ctrl, 0))
    IN  merge_down(g.ret, lhs_s, r.s, [g EXCEPT !.ctrl = g.ret])

\* The record of an IfElse about to join: whether it has an else side,
\* the store it was given, the store of its then side, and the number its
\* call of merge_down will have in c.joins.
if_joining(stmt, in_s, lhs_s, r) ==
    [r EXCEPT !.ifs = Append(@, [has_else |-> stmt.rhs # NoBlock,
                                 in_s |-> in_s, lhs_s |-> lhs_s,
                                 join |-> Len(r.joins) + 1])]

\* IfElse, the else side: l is the state after the then side.
ai_if_rhs(stmt, in_s, rhs_root, l) ==
    ai_if_region(l.s, l.ctrl,
                 if_joining(
                     stmt, in_s, l.s,
                     IF stmt.rhs # NoBlock
                     THEN ai_block(stmt.rhs[1], in_s,
                                   [l EXCEPT !.ctrl = rhs_root])
                     ELSE [l EXCEPT !.ctrl = rhs_root, !.s = in_s]))

\* IfElse, the Branch and its two projections, then the then side: b is
\* the state after the condition.  lhs_root and rhs_root are the ids
\* makeset returned, not found again after the inserts.
ai_if_projs(stmt, in_s, b) ==
    LET branch == ai_find(insert_fresh(b, Branch(b.ctrl, b.ret, 0)))
        lhs_root == insert_fresh(branch, ControlProj(branch.ret, 1, 0))
        rhs_root == insert_fresh(lhs_root, ControlProj(branch.ret, 0, 0))
    IN  ai_if_rhs(stmt, in_s, rhs_root.ret,
                  ai_block(stmt.lhs, in_s,
                           [rhs_root EXCEPT !.ctrl = lhs_root.ret]))

\* A While that leaves its placeholders unmerged.
merge_static_phis_none(v, static_phis, last_concrete_expr, idens) == v

\* While, `for (iden, static_phi) in static_phis`: merge each placeholder
\* with the last concrete expression of its identifier.
RECURSIVE merge_static_phis(_, _, _, _)
merge_static_phis(v, static_phis, last_concrete_expr, idens) ==
    IF idens = {}
    THEN v
    ELSE merge_static_phis(
             merge(v, static_phis[Least(idens)],
                   last_concrete_expr[Least(idens)]).vec,
             static_phis, last_concrete_expr, idens \ {Least(idens)})

\* The loop body with a new placeholder on every disagreement.
fix_iden_realloc(iden, after_body_s, u) ==
    LET new_expr == u.before_body_s[iden]
    IN  IF ~(iden \in DOMAIN after_body_s /\ new_expr # after_body_s[iden])
        THEN [u EXCEPT !.visits =
                 Append(@, [region |-> u.region, iden |-> iden,
                            pass |-> u.pass, pre |-> u.in_s[iden],
                            post |-> IF iden \in DOMAIN after_body_s
                                     THEN after_body_s[iden] ELSE None,
                            allocated |-> FALSE, handed |-> new_expr])]
        ELSE [u EXCEPT
                !.last_concrete_expr = store_insert(@, iden, new_expr),
                !.uf = makeset(u.uf).vec,
                !.before_body_s = store_insert(@, iden, makeset(u.uf).ret),
                !.static_phis = store_insert(@, iden, makeset(u.uf).ret),
                !.changed = TRUE,
                !.visits =
                    Append(@, [region |-> u.region, iden |-> iden,
                               pass |-> u.pass, pre |-> u.in_s[iden],
                               post |-> after_body_s[iden],
                               allocated |-> TRUE,
                               handed |-> makeset(u.uf).ret])]

\* While, the body of `for (iden, new_expr) in before_body_s.iter_mut()`.
\* u holds before_body_s, last_concrete_expr, static_phis, changed and the
\* union-find.
fix_iden(iden, after_body_s, u) ==
    LET new_expr == u.before_body_s[iden]
        u1 == IF ~(iden \in DOMAIN after_body_s
                     /\ new_expr # after_body_s[iden])
              THEN u
              ELSE IF iden \in DOMAIN u.last_concrete_expr
              THEN [u EXCEPT
                      !.changed = u.last_concrete_expr[iden] # new_expr
                                      \/ u.changed,
                      !.last_concrete_expr =
                          store_insert(@, iden, new_expr)]
              ELSE [u EXCEPT
                      !.last_concrete_expr = store_insert(@, iden, new_expr),
                      !.uf = makeset(u.uf).vec,
                      !.before_body_s =
                          store_insert(@, iden, makeset(u.uf).ret),
                      !.static_phis =
                          store_insert(@, iden, makeset(u.uf).ret),
                      !.changed = TRUE]
        u2 == IF iden \in DOMAIN u1.static_phis
              THEN [u1 EXCEPT !.before_body_s =
                                  store_insert(@, iden, u1.static_phis[iden])]
              ELSE u1
    IN  [u2 EXCEPT !.visits =
            Append(@, [region |-> u.region, iden |-> iden, pass |-> u.pass,
                       pre |-> u.in_s[iden],
                       post |-> IF iden \in DOMAIN after_body_s
                                THEN after_body_s[iden] ELSE None,
                       allocated |-> num_classes(u1.uf) # num_classes(u.uf),
                       handed |-> u2.before_body_s[iden]])]

RECURSIVE fix_idens(_, _, _)
fix_idens(idens, after_body_s, u) ==
    IF idens = {}
    THEN u
    ELSE fix_idens(idens \ {Least(idens)}, after_body_s,
                   fix_iden(Least(idens), after_body_s, u))

\* The record of the While whose loop-body region is region, closed with
\* the union-find and the Phi table the statement leaves behind.
while_done(region, c) ==
    [c EXCEPT !.whiles =
        [i \in DOMAIN c.whiles |->
            IF c.whiles[i].region = region
            THEN [c.whiles[i] EXCEPT !.done = TRUE, !.uf = c.uf,
                                     !.phi = c.graph.phi]
            ELSE c.whiles[i]]]

\* While, after the loop, from loop_body_done_proj on: b is the state
\* after the insert of the body Branch.
ai_while_regions(in_s, l, after_body_s, skip_proj, b) ==
    LET done_proj == insert_fresh(b, ControlProj(l.loop_body_branch, 0, 0))
        continue_proj ==
            insert_fresh(done_proj, ControlProj(l.loop_body_branch, 1, 0))
        body_region ==
            ai_insert(continue_proj,
                      Region(l.loop_entry_proj, continue_proj.ret,
                             l.loop_body_region))
        exit_region ==
            ai_insert(body_region,
                      Region(skip_proj, done_proj.ret, l.loop_exit_region))
    IN  while_done(l.loop_body_region,
                   merge_down(l.loop_exit_region, in_s, after_body_s,
                              [exit_region EXCEPT
                                 !.ctrl = l.loop_exit_region]))

\* While, after the loop: the entry Branch, its projections and the body
\* Branch.  l holds the ids made before the loop, entry_pred and
\* original_cond_expr; e is the state after the last evaluation of the
\* condition, ret cond_expr.
ai_while_exit(in_s, l, loop_body_bottom, after_body_s, e) ==
    LET entry_branch ==
            insert_fresh(e, Branch(l.entry_pred, l.original_cond_expr, 0))
        skip_proj ==
            insert_fresh(entry_branch, ControlProj(entry_branch.ret, 0, 0))
        entry_proj ==
            ai_insert(skip_proj,
                      ControlProj(entry_branch.ret, 1, l.loop_entry_proj))
    IN  ai_while_regions(
            in_s, l, after_body_s, skip_proj.ret,
            ai_insert(entry_proj,
                      Branch(loop_body_bottom, e.ret, l.loop_body_branch)))

\* While, the `if !changed` arm after the body has been evaluated again:
\* a.ctrl is loop_body_bottom, a.s is after_body_s.
ai_while_break(stmt, in_s, l, a) ==
    IF a.diverged
    THEN a
    ELSE ai_while_exit(in_s, l, a.ctrl, a.s, ai_expr(stmt.cond, a.s, a))

\* While, the fixed-point loop.  a is the state at the top of the loop,
\* a.s is after_body_s; passes counts the body evaluations of the else arm.
RECURSIVE ai_while_loop(_, _, _, _, _, _, _, _)
ai_while_cond(stmt, in_s, l, u, passes, a) ==
    ai_while_loop(stmt, in_s, l, u.last_concrete_expr, u.static_phis,
                  u.changed, passes + 1,
                  [ai_expr(stmt.cond, a.s, a) EXCEPT !.s = a.s])

ai_while_again(stmt, in_s, l, passes, b, u) ==
    ai_while_cond(stmt, in_s, l, u, passes,
                  ai_block(stmt.body, u.before_body_s,
                           [b EXCEPT !.uf = u.uf,
                                     !.visits = u.visits,
                                     !.ctrl = l.loop_body_region]))

ai_while_step(stmt, in_s, l, last_concrete_expr, static_phis, changed, passes, after_body_s, b) ==
    IF ~changed
    THEN ai_while_break(
             stmt, in_s, l,
             ai_block(stmt.body, b.s,
                      [b EXCEPT
                         !.uf = merge_static_phis(b.uf, static_phis,
                                                  last_concrete_expr,
                                                  DOMAIN static_phis),
                         !.ctrl = l.loop_body_region,
                         !.whiles =
                             Append(@, [region |-> l.loop_body_region,
                                        in_s |-> in_s,
                                        post_s |-> after_body_s,
                                        before_body_s |-> b.s,
                                        static_phis |-> static_phis,
                                        last_concrete_expr |->
                                            last_concrete_expr,
                                        done |-> FALSE,
                                        uf |-> << >>,
                                        phi |-> b.graph.phi])]))
    ELSE IF passes >= MaxWhilePasses
    THEN [b EXCEPT !.diverged = TRUE]
    ELSE ai_while_again(
             stmt, in_s, l, passes, b,
             fix_idens(DOMAIN b.s, after_body_s,
                       [before_body_s |-> b.s,
                        last_concrete_expr |-> last_concrete_expr,
                        static_phis |-> static_phis,
                        changed |-> FALSE,
                        uf |-> b.uf,
                        region |-> l.loop_body_region,
                        in_s |-> in_s,
                        pass |-> passes,
                        visits |-> b.visits]))

ai_while_loop(stmt, in_s, l, last_concrete_expr, static_phis, changed, passes, a) ==
    IF a.diverged
    THEN a
    ELSE ai_while_step(stmt, in_s, l, last_concrete_expr, static_phis,
                       changed, passes, a.s,
                       merge_down(l.loop_body_region, in_s, a.s, a))

\* While, up to the loop: e is the state after the first evaluation of the
\* condition.
ai_while_body(stmt, in_s, l, e) ==
    ai_while_loop(stmt, in_s, [l EXCEPT !.original_cond_expr = e.ret],
                  << >>, << >>, TRUE, 0,
                  ai_block(stmt.body, in_s,
                           [e EXCEPT !.ctrl = l.loop_body_region]))

ai_while(stmt, in_s, c) ==
    LET body_region == ai_makeset(c)
        exit_region == ai_makeset(body_region)
        body_branch == ai_makeset(exit_region)
        entry_proj == ai_makeset(body_branch)
    IN  ai_while_body(
            stmt, in_s,
            [loop_body_region |-> body_region.ret,
             loop_exit_region |-> exit_region.ret,
             loop_body_branch |-> body_branch.ret,
             loop_entry_proj |-> entry_proj.ret,
             entry_pred |-> c.ctrl,
             original_cond_expr |-> 0],
            ai_expr(stmt.cond, in_s,
                    [entry_proj EXCEPT !.ctrl = entry_proj.ret]))

\* Assign and Return, after the expression: e.ret is its class.
ai_assign(stmt, in_s, e) ==
    [e EXCEPT !.s = store_insert(in_s, stmt.iden, e.ret)]

ai_return(in_s, e) ==
    [insert_fresh(e, Finish(e.ctrl, e.ret, 0)) EXCEPT !.s = in_s]

\* ai_stmt: s is the store the statement hands back.
ai_stmt(stmt, in_s, c) ==
    CASE stmt.s = "Block" -> ai_block(stmt.block, in_s, c)
      [] stmt.s = "Assign" ->
             ai_assign(stmt, in_s, ai_expr(stmt.expr, in_s, c))
      [] stmt.s = "IfElse" ->
             ai_if_projs(stmt, in_s, ai_expr(stmt.cond, in_s, c))
      [] stmt.s = "While" -> ai_while(stmt, in_s, c)
      [] stmt.s = "Return" -> ai_return(in_s, ai_expr(stmt.expr, in_s, c))

\* ai_func, `for (idx, iden) in func.params`: parameter number i of the
\* sequence has index i - 1.
RECURSIVE ai_params(_, _, _)
ai_param(params, i, p) ==
    ai_params(params, i + 1,
              [p EXCEPT !.s = store_insert(p.s, params[i], p.ret)])

ai_params(params, i, c) ==
    IF i > Len(params)
    THEN c
    ELSE ai_param(params, i, ai_find(insert_fresh(c, Param(i - 1, 0))))

\* ai_func on a new graph, as abstract_interpret calls it for a function.
ai_func(func) ==
    LET start == insert_fresh([graph |-> graph_new, uf |-> new, ctrl |-> 0,
                               s |-> << >>, ret |-> 0, diverged |-> FALSE,
                               whiles |-> << >>, visits |-> << >>,
                               joins |-> << >>, ifs |-> << >>],
                              Start(0))
        p == ai_params(func.params, 1, [start EXCEPT !.ctrl = start.ret])
    IN  ai_block(func.block, p.s, p)

(***************************************************************************)
(* Programs under the abstract interpreter: a program of one function      *)
(* f(x) is parsed, abstract_interpret builds its graph, and rebuild is     *)
(* called on the graph, as tests::simple_ai does.  The programs are the    *)
(* functions whose body is a statement of nesting depth at most two over   *)
(* x and a local y, or a while loop on x around one, or `y = -1;` before   *)
(* a loop or an if, each followed by `return x`.  call                     *)
(* holds the program; an abstract_interpret that does not come back        *)
(* leaves the program inside it.  twin is a second run of the same calls   *)
(* on the same program: abstract_interpret consults no hash collection     *)
(* (its AbstractStore is a BTreeMap), rebuild iterates its hash sets under *)
(* a hasher of its own.                                                    *)
(***************************************************************************)
\* The IdentifierId of x, interned after the function's name.
X == 1

\* The IdentifierId of y, the next one interned.
Y == 2

\* y = -1;
SetY == Assign(Y, NumberLiteral(-1))

\* x = x + -1;
Decrement == Assign(X, AddExpr(Variable(X), NumberLiteral(-1)))

SimpleStmts ==
    {Decrement,
     Assign(X, NumberLiteral(-1)),
     Assign(X, Variable(X)),
     Assign(X, AddExpr(Variable(X), Variable(X))),
     SetY,
     Return(Variable(X))}

SimpleBlocks == {<< >>} \cup {<<stmt>> : stmt \in SimpleStmts}

CompoundStmts ==
    {IfElse(Variable(X), block, NoBlock) : block \in SimpleBlocks}
    \cup {IfElse(Variable(X), block, SomeBlock(<<Assign(X, NumberLiteral(-1))>>)) :
              block \in SimpleBlocks}
    \cup {IfElse(Variable(X), block, SomeBlock(<<SetY>>)) :
              block \in {<< >>, <<SetY>>}}
    \cup {While(Variable(X), block) : block \in SimpleBlocks}

Blocks == SimpleBlocks \cup {<<stmt>> : stmt \in CompoundStmts}

Function(block) == [params |-> <<X>>, block |-> block]

\* fn basic(x) { while x { x = x + -1; } return x; }
Basic == Function(<<While(Variable(X), <<Decrement>>), Return(Variable(X))>>)

Programs ==
    {Function(block \o <<Return(Variable(X))>>) : block \in Blocks}
    \cup {Function(<<While(Variable(X), block), Return(Variable(X))>>) :
              block \in Blocks}
    \cup {Function(<<SetY>> \o block \o <<Return(Variable(X))>>) :
              block \in {<<While(Variable(X), <<Decrement>>)>>,
                         <<While(Variable(X), <<SetY>>)>>,
                         <<IfElse(Variable(X), <<Decrement>>, NoBlock)>>}}

AIInit ==
    /\ graph = graph_new
    /\ uf = new
    /\ pre_uf = new
    /\ table = << >>
    /\ pre_table = << >>
    /\ issued = {}
    /\ made = << >>
    /\ twin = [TwinStart EXCEPT !.graph = graph_new, !.uf = new]
    /\ call = NoCall

AIParse ==
    /\ call = NoCall
    /\ \E program \in Programs :
           call' = [name |-> "parse", program |-> program]
    /\ UNCHANGED <<twin, uf, pre_uf, table, pre_table, issued, graph, made>>

AIInterpret ==
    /\ call.name = "parse"
    /\ \E r \in {ai_func(call.program)} :
           /\ graph' = r.graph
           /\ uf' = r.uf
           /\ twin' = [graph |-> r.graph, uf |-> r.uf,
                       returned |-> ~r.diverged]
           /\ call' = [name |-> "abstract_interpret",
                       program |-> call.program,
                       returned |-> ~r.diverged,
                       whiles |-> r.whiles, visits |-> r.visits,
                       joins |-> r.joins, ifs |-> r.ifs]
    /\ UNCHANGED <<pre_uf, table, pre_table, issued, made>>

AIRebuild ==
    /\ call.name = "abstract_interpret"
    /\ call.returned
    /\ \E hasher \in Hashers :
        /\ \E r \in {graph_rebuild(graph, uf, hasher)} :
               /\ graph' = r.graph
               /\ uf' = r.uf
               /\ call' = [name |-> "rebuild", program |-> call.program,
                           returned |-> r.returned, hasher |-> hasher,
                           coarsened |-> Coarsened(uf, r.uf),
                           whiles |-> call.whiles]
        /\ \E other \in Hashers \ {hasher} :
               \E r \in {graph_rebuild(twin.graph, twin.uf, other)} :
                   twin' = [graph |-> r.graph, uf |-> r.uf,
                            returned |-> r.returned]
    /\ UNCHANGED <<pre_uf, table, pre_table, issued, made>>

AINext == AIParse \/ AIInterpret \/ AIRebuild

SpecAI == AIInit /\ [][AINext]_vars

(***************************************************************************)
(* Properties of the table.  A row is live when its slot is not the        *)
(* tombstone; LiveWith(t, det) are the live rows holding determinant det.  *)
(***************************************************************************)

\* C6: functional dependency.  After any sequence of insert_row and
\* delete_row, for every table shape, no two live rows have the same
\* determinant.
C6_FunctionalDependency ==
    \A i, j \in LiveRows(table) :
        get_row(table, i)[1] = get_row(table, j)[1] => i = j

\* C7: insert_row keeping the resident.  With no live row for det it
\* appends (det, dep) and returns dep; with a live row for det it returns
\* that row's dep, also when the proposed dep differs, and the dep stored
\* for det afterwards is still that one.
C7_InsertKeepsResident ==
    call.name = "insert_row" =>
        LET residents == LiveWith(pre_table, call.det)
        IN  IF residents = {}
            THEN /\ table.contents =
                        Append(pre_table.contents, <<call.det, call.dep>>)
                 /\ call.ret = call.dep
            ELSE \A r \in residents :
                    /\ call.ret = get_row(pre_table, r)[2]
                    /\ \A idx \in LiveWith(table, call.det) :
                           get_row(table, idx)[2] = get_row(pre_table, r)[2]

\* C8 as stated: an insert whose determinant already has a live row does
\* not modify the table: no slot is tombstoned, none is appended, the
\* resident row keeps its RowId.
C8_ConflictingInsertLeavesTable ==
    (call.name = "insert_row" /\ LiveWith(pre_table, call.det) # {}) =>
        /\ table.contents = pre_table.contents
        /\ table.determine_map = pre_table.determine_map
        /\ table.num_free_rows = pre_table.num_free_rows

\* C8 amended: an insert whose determinant is resident in the lookup map
\* at RowId prior tombstones slot prior and appends one slot at the tail
\* that holds the determinant with the resident dep; every other slot and
\* every other map entry is unchanged, num_free_rows grows by one and
\* num_allocated_rows is unchanged.  The resident row therefore moves to a
\* new RowId, the last one.
C8_ConflictingInsertMovesRow ==
    (call.name = "insert_row" /\ call.det \in DOMAIN pre_table.determine_map) =>
        LET prior == pre_table.determine_map[call.det]
            resident == get_row(pre_table, prior)
            tail == Len(pre_table.contents)
        IN  /\ resident[1] = call.det
            /\ call.ret = resident[2]
            /\ table.contents =
                   Append([pre_table.contents EXCEPT
                               ![prior + 1] = Tombstone(table.D, table.P)],
                          resident)
            /\ DOMAIN table.determine_map = DOMAIN pre_table.determine_map
            /\ \A d \in DOMAIN table.determine_map :
                   table.determine_map[d] =
                       IF d = call.det THEN tail
                       ELSE pre_table.determine_map[d]
            /\ table.num_free_rows = pre_table.num_free_rows + 1
            /\ table.num_allocated_rows = pre_table.num_allocated_rows

\* An insert that proposed a different dep for a resident determinant while
\* another row was live.
C8_Witness ==
    /\ call.name = "insert_row"
    /\ call.det \in DOMAIN pre_table.determine_map
    /\ call.dep # mapped_dependent(pre_table, call.det)
    /\ pre_table.determine_map[call.det] = 0
    /\ Cardinality(LiveRows(pre_table)) >= 2
    /\ table.determine_map[call.det] = Len(pre_table.contents)

\* C9: delete_row on a live row returns true and removes exactly that row:
\* it is no longer enumerated, its determinant is no longer resident, and
\* every other live row keeps its RowId, determinant and dependent.  An
\* insert of a determinant that is not resident (as after its deletion)
\* stores the proposed dep and returns it.
C9_DeleteLiveRow ==
    /\ (call.name = "delete_row" /\ call.row \in LiveRows(pre_table)) =>
        /\ call.ret = TRUE
        /\ LiveRows(table) = LiveRows(pre_table) \ {call.row}
        /\ get_row(pre_table, call.row)[1] \notin DOMAIN table.determine_map
        /\ \A idx \in LiveRows(table) :
               get_row(table, idx) = get_row(pre_table, idx)
    /\ (call.name = "insert_row"
            /\ call.det \notin DOMAIN pre_table.determine_map) =>
        /\ call.ret = call.dep
        /\ get_row(table, Len(pre_table.contents)) = <<call.det, call.dep>>

\* C10: delete_row on an already-deleted RowId returns false and changes
\* nothing: rows, lookup map and both counters, for every table shape.
C10_DeleteDeletedRow ==
    (call.name = "delete_row" /\ call.row \notin LiveRows(pre_table)) =>
        /\ call.ret = FALSE
        /\ table = pre_table

\* C25: RowIds are never reused.  Over insert_row and delete_row: no slot
\* is ever removed; a slot's content only ever changes to the tombstone,
\* so a tombstoned slot stays one; insert_row appends one slot, whose
\* RowId is the number of slots appended before it, and the determinant is
\* mapped to that RowId, also when it had been deleted before; and the slot
\* of a RowId that delete_row has deleted reads as the tombstone.
C25_RowIdsNeverReused ==
    /\ Len(table.contents) >= Len(pre_table.contents)
    /\ \A idx \in 0 .. (Len(pre_table.contents) - 1) :
           \/ get_row(table, idx) = get_row(pre_table, idx)
           \/ get_row(table, idx) = Tombstone(table.D, table.P)
    /\ call.name = "insert_row" =>
           /\ Len(table.contents) = Len(pre_table.contents) + 1
           /\ table.determine_map[call.det] = Len(pre_table.contents)
           /\ get_row(table, Len(pre_table.contents)) = <<call.det, call.ret>>
    /\ (call.name = "delete_row" /\ call.ret) =>
           get_row(table, call.row) = Tombstone(table.D, table.P)

\* An insert of a determinant that is not resident, into a table whose
\* first slot is a tombstone and which has a live row: the row went to the
\* tail.
C25_Witness ==
    /\ call.name = "insert_row"
    /\ call.det \notin DOMAIN pre_table.determine_map
    /\ Len(pre_table.contents) >= 2
    /\ get_row(pre_table, 0) = Tombstone(table.D, table.P)
    /\ LiveRows(pre_table) # {}
    /\ get_row(table, 0) = Tombstone(table.D, table.P)
    /\ table.determine_map[call.det] = Len(pre_table.contents)

\* The RowIds a caller gets from first_row and then next_row until None.
\* `fuel` bounds the walk; a walk still going when it is used up ends in
\* None as an element.
RECURSIVE WalkFrom(_, _, _)
WalkFrom(t, maybe_row_id, fuel) ==
    IF maybe_row_id = None THEN << >>
    ELSE IF fuel = 0 THEN << None >>
    ELSE <<maybe_row_id>> \o WalkFrom(t, next_row(t, maybe_row_id), fuel - 1)

Walk(t) == WalkFrom(t, first_row(t), Len(t.contents))

\* C26: enumeration is exact and ordered.  In every table state the walk
\* from first_row along next_row visits RowIds in strictly increasing
\* order, visits every slot that is not the tombstone and no other, and
\* the rows it visits are, in order, the sequence iter() yields.
C26_EnumerationExact ==
    LET walk == Walk(table)
    IN  /\ \A i \in 1 .. Len(walk) : walk[i] \in LiveRows(table)
        /\ \A i, j \in 1 .. Len(walk) : i < j => walk[i] < walk[j]
        /\ \A row \in LiveRows(table) : \E i \in 1 .. Len(walk) : walk[i] = row
        /\ iter(table) = [i \in 1 .. Len(walk) |-> get_row(table, walk[i])]

\* A table with a tombstone between two live rows, and one after them.
C26_Witness ==
    /\ Len(table.contents) = 4
    /\ LiveRows(table) = {0, 2}
    /\ Walk(table) = <<0, 2>>

\* C27: the counters.  After any sequence of insert_row and delete_row,
\* num_allocated_rows is the number of live rows, num_free_rows the number
\* of tombstoned slots, their sum the number of slots appended; and a
\* delete_row of an already-deleted RowId changes neither counter.
C27_CounterInvariant ==
    /\ table.num_allocated_rows = Cardinality(LiveRows(table))
    /\ table.num_free_rows
           = Len(table.contents) - Cardinality(LiveRows(table))
    /\ table.num_allocated_rows + table.num_free_rows = Len(table.contents)
    /\ (call.name = "delete_row" /\ call.row \notin LiveRows(pre_table)) =>
           /\ table.num_allocated_rows = pre_table.num_allocated_rows
           /\ table.num_free_rows = pre_table.num_free_rows

\* C28: index consistency.  In every table state the lookup map has one
\* entry for each slot that is not the tombstone and no other: each
\* entry's RowId is a live slot that holds the entry's determinant (and so
\* the dependent the entry refers to), and every live slot is the RowId of
\* the entry of its determinant.
C28_IndexConsistency ==
    /\ \A det \in DOMAIN table.determine_map :
           /\ table.determine_map[det] \in LiveRows(table)
           /\ get_row(table, table.determine_map[det])[1] = det
    /\ \A row \in LiveRows(table) :
           /\ get_row(table, row)[1] \in DOMAIN table.determine_map
           /\ table.determine_map[get_row(table, row)[1]] = row

(***************************************************************************)
(* Properties of the graph.                                                *)
(***************************************************************************)
\* C5: ClassMonotone.  Over makeset, find, merge, Graph::insert and
\* Graph::rebuild, two ids with find(a) = find(b) have find(a) = find(b)
\* in the next state (hence in every later one), and find(x) of no id is
\* larger in the next state than it is now.
C5_ClassMonotone ==
    [][ /\ \A a, b \in Ids(uf) :
              find(uf, a).ret = find(uf, b).ret
                  => find(uf', a).ret = find(uf', b).ret
        /\ \A x \in Ids(uf) : find(uf', x).ret <= find(uf, x).ret ]_vars

\* A rebuild that returned after merging classes, in a graph whose Add
\* table held two live rows before a merge made their determinants equal.
C5_Witness ==
    /\ call.name = "rebuild"
    /\ call.returned
    /\ call.coarsened
    /\ Len(graph.add.contents) > 2
    /\ \E x \in Ids(uf) : find(uf, x).ret # x

\* The columns of an encoded row, determinant first.
Columns(row) == {row[1][i] : i \in DOMAIN row[1]} \cup {row[2][i] : i \in DOMAIN row[2]}

\* C11: for every term Graph::insert accepts, the encoder emits no column
\* equal to 0xFFFFFFFF, the bit pattern of the tombstone.
C11_EncoderAvoidsEmpty ==
    call.name = "insert" => EMPTY \notin Columns(encode(call.term))

\* The ClassId stored as the root of slot idx of table t.
StoredRoot(t, idx) == WordToClassId(get_row(t, idx)[2][1])

\* C12: hash-consing on insert.  When Graph::insert is given a term whose
\* determinant has a live row with root r', then afterwards the proposed
\* root and r' have the same find, exactly one live row has the
\* determinant, and two ids are in one class only if they were before or
\* both lie in the classes of the two roots.
C12_HashConsOnInsert ==
    [][ call'.name = "insert" =>
          LET term == call'.term
              before == graph[table_of(term.tag)]
              after == graph'[table_of(term.tag)]
              det == encode(term)[1]
          IN  \A idx \in LiveWith(before, det) :
                LET united == Class(uf, term.root)
                                  \cup Class(uf, StoredRoot(before, idx))
                IN  /\ find(uf', term.root).ret
                           = find(uf', StoredRoot(before, idx)).ret
                    /\ Cardinality(LiveWith(after, det)) = 1
                    /\ \A a, b \in Ids(uf) :
                           Equiv(uf', a, b) <=>
                               (Equiv(uf, a, b) \/ {a, b} \subseteq united)
      ]_vars

\* An insert that met a resident row with another root and united two
\* classes.
C12_Witness ==
    /\ call.name = "insert"
    /\ call.coarsened
    /\ call.ret.root # call.term.root
    /\ find(uf, call.ret.root).ret = find(uf, call.term.root).ret

\* C13: Graph::insert returns the term as it resides in the table.  With
\* no live row for the determinant it returns the inserted term; with one
\* it returns the term carrying that row's stored root and the table has as
\* many live rows as before, so inserting a term twice returns the same
\* term both times.
C13_InsertReturnsResident ==
    [][ call'.name = "insert" =>
          LET term == call'.term
              before == graph[table_of(term.tag)]
              after == graph'[table_of(term.tag)]
              det == encode(term)[1]
          IN  IF LiveWith(before, det) = {}
              THEN /\ call'.ret = term
                   /\ Cardinality(LiveRows(after))
                          = Cardinality(LiveRows(before)) + 1
              ELSE \A idx \in LiveWith(before, det) :
                     /\ call'.ret =
                            [term EXCEPT !.root = StoredRoot(before, idx)]
                     /\ Cardinality(LiveRows(after))
                            = Cardinality(LiveRows(before))
                     /\ after.num_allocated_rows = before.num_allocated_rows
      ]_vars

\* An insert that proposed another root for a resident determinant and got
\* the resident root back; the table then holds a tombstone and the row.
C13_Witness ==
    /\ call.name = "insert"
    /\ call.ret.root # call.term.root
    /\ call.ret = [call.term EXCEPT !.root = call.ret.root]
    /\ GraphSlots(graph) = MaxGraphSlots
    /\ LiveWith(graph[table_of(call.term.tag)], encode(call.term)[1]) # {}

\* The ClassId fields of a term: all but the tag, the index of Param and
\* ControlProj and the value of Constant.
ClassFields(term) ==
    DOMAIN term \ ({"tag", "index"}
                      \cup IF term.tag = "Constant" THEN {"value"} ELSE {})

\* The tags of the term tables.
Tags == {TermTables[i] : i \in DOMAIN TermTables}

\* The determinant of a row with every ClassId column replaced by its find.
CanonDet(tag, row, v) ==
    LET term == decode(tag, row[1], row[2])
        canon == [f \in DOMAIN term |->
                     IF f \in ClassFields(term)
                     THEN Rep(v, term[f]) ELSE term[f]]
    IN  encode(canon)[1]

\* No two live rows of the table of tag have the same stored determinant.
RawDistinct(g, tag) ==
    \A i, j \in LiveRows(g[table_of(tag)]) :
        get_row(g[table_of(tag)], i)[1] = get_row(g[table_of(tag)], j)[1]
            => i = j

\* No two live rows of the table of tag have the same determinant once
\* every ClassId column is replaced by its find.
CanonDistinct(g, v, tag) ==
    \A i, j \in LiveRows(g[table_of(tag)]) :
        CanonDet(tag, get_row(g[table_of(tag)], i), v)
                = CanonDet(tag, get_row(g[table_of(tag)], j), v)
            => i = j

\* C14 as stated: HashCons after every public operation.  After each
\* makeset, insert, merge and rebuild no table holds two live rows whose
\* determinants are equal once every ClassId column is replaced by its find.
C14_HashConsAlways ==
    \A tag \in Tags : CanonDistinct(graph, uf, tag)

\* C14 amended: after every makeset, find, insert, merge and rebuild no
\* table holds two live rows with the same stored determinant, and when
\* the last operation is a rebuild that returned, none holds two live rows
\* whose determinants are equal once ClassId columns are replaced by find.
C14_HashConsAfterRebuild ==
    /\ \A tag \in Tags : RawDistinct(graph, tag)
    /\ (call.name = "rebuild" /\ call.returned) =>
           \A tag \in Tags : CanonDistinct(graph, uf, tag)

\* A rebuild that returned with a table in which two rows have been
\* deleted and one live row stands for them.
C14_Witness ==
    /\ call.name = "rebuild"
    /\ call.returned
    /\ \E tag \in Tags :
          /\ graph[table_of(tag)].num_free_rows >= 2
          /\ graph[table_of(tag)].num_allocated_rows = 1

\* Every ClassId column of every live row of the table of tag is its own
\* representative.
CanonRows(g, v, tag) ==
    \A idx \in LiveRows(g[table_of(tag)]) :
        LET row == get_row(g[table_of(tag)], idx)
            term == decode(tag, row[1], row[2])
        IN  \A f \in ClassFields(term) : Rep(v, term[f]) = term[f]

\* C15: Canon and FD after rebuild.  When Graph.rebuild has returned,
\* every ClassId column (determinant children and dependent root) of every
\* live row of every term table equals its find, and no two live rows of a
\* table share a determinant.
C15_CanonAfterRebuild ==
    (call.name = "rebuild" /\ call.returned) =>
        \A tag \in Tags :
            /\ CanonRows(graph, uf, tag)
            /\ \A idx \in LiveRows(graph[table_of(tag)]) :
                   LET row == get_row(graph[table_of(tag)], idx)
                   IN  /\ find(uf, WordToClassId(row[2][1])).ret
                              = WordToClassId(row[2][1])
                       /\ LiveWith(graph[table_of(tag)], row[1]) = {idx}

\* A rebuild that returned over a union-find with a class of two or more
\* ids, leaving a live row with a ClassId child and a tombstone where a
\* row was rewritten.
C15_Witness ==
    /\ call.name = "rebuild"
    /\ call.returned
    /\ \E x \in Ids(uf) : Rep(uf, x) # x
    /\ \E tag \in {"ControlProj", "Add"} :
          /\ LiveRows(graph[table_of(tag)]) # {}
          /\ graph[table_of(tag)].num_free_rows >= 1

\* C16: congruence after rebuild.  Over a rebuild that returns, any two
\* rows of one table that were live before it and whose determinants are
\* column-wise equivalent in the final union-find have find-equal roots
\* afterwards, and exactly one live row of the table represents them.
C16_CongruenceAfterRebuild ==
    [][ (call'.name = "rebuild" /\ call'.returned) =>
          \A tag \in Tags :
              LET before == graph[table_of(tag)]
                  after == graph'[table_of(tag)]
              IN  \A i, j \in LiveRows(before) :
                      CanonDet(tag, get_row(before, i), uf')
                              = CanonDet(tag, get_row(before, j), uf')
                          => /\ Rep(uf', StoredRoot(before, i))
                                    = Rep(uf', StoredRoot(before, j))
                             /\ Cardinality(
                                    {k \in LiveRows(after) :
                                        CanonDet(tag, get_row(after, k), uf')
                                            = CanonDet(tag, get_row(before, i),
                                                       uf')}) = 1
                             /\ \A k \in LiveWith(
                                    after,
                                    CanonDet(tag, get_row(before, i), uf')) :
                                    StoredRoot(after, k)
                                        = Rep(uf', StoredRoot(before, i))
      ]_vars

\* A rebuild that returned having merged classes and left, in a table of
\* ClassId determinants, one live row after re-inserting at least one: two
\* rows with equivalent determinants were collapsed into it.
C16_Witness ==
    /\ call.name = "rebuild"
    /\ call.returned
    /\ call.coarsened
    /\ \E tag \in {"ControlProj", "Add"} :
          /\ Cardinality(LiveRows(graph[table_of(tag)])) = 1
          /\ Len(graph[table_of(tag)].contents) >= 3
          /\ Len(graph[table_of(tag)].contents) = GraphSlots(graph)

\* C18: equality of UnionFind values is equality of the partitions.  Two
\* UnionFind values over the same n ids compare equal exactly when find(i)
\* agrees for every i in [0, n); here the two values are the union-find
\* before and after the last operation.
C18_EqualityIsSamePartition ==
    num_classes(pre_uf) = num_classes(uf) =>
        (union_find_eq(pre_uf, uf)
            <=> \A i \in Ids(uf) : find(pre_uf, i).ret = find(uf, i).ret)

\* C17: Graph.rebuild terminates.  From every state reachable by makeset,
\* insert and merge, a call of rebuild returns: the outer loop, each
\* rebuild_table pass loop and corebuild all reach their exit.
C17_RebuildTerminates ==
    call.name = "rebuild" => call.returned

\* The number of live rows of the table of tag.
LiveCount(g, tag) == Cardinality(LiveRows(g[table_of(tag)]))

\* C19 as stated: abstract interpretation of
\* `fn basic(x) { while x { x = x + -1; } return x; }` followed by rebuild
\* leaves 1 Constant (value -1), 1 Param (index 0), 1 Start, 2 Regions,
\* 2 Branches, 4 ControlProjs, 1 Finish, 2 Phis and 2 Adds.
C19_BasicRowsTwoPhis ==
    (call.name = "rebuild" /\ call.program = Basic /\ call.returned) =>
        /\ LiveCount(graph, "Constant") = 1
        /\ \A i \in LiveRows(graph.constant) :
               constant_decode(get_row(graph.constant, i)[1],
                               get_row(graph.constant, i)[2]).value = -1
        /\ LiveCount(graph, "Param") = 1
        /\ \A i \in LiveRows(graph.param) :
               param_decode(get_row(graph.param, i)[1],
                            get_row(graph.param, i)[2]).index = 0
        /\ LiveCount(graph, "Start") = 1
        /\ LiveCount(graph, "Region") = 2
        /\ LiveCount(graph, "Branch") = 2
        /\ LiveCount(graph, "ControlProj") = 4
        /\ LiveCount(graph, "Finish") = 1
        /\ LiveCount(graph, "Phi") = 2
        /\ LiveCount(graph, "Add") = 2

\* C19 amended: the same program and rebuild leave 1 Constant (value -1),
\* 1 Param (index 0), 1 Start, 2 Regions, 2 Branches, 4 ControlProjs,
\* 1 Finish, 3 Phis and 2 Adds.
C19_BasicRowsThreePhis ==
    (call.name = "rebuild" /\ call.program = Basic /\ call.returned) =>
        /\ LiveCount(graph, "Constant") = 1
        /\ \A i \in LiveRows(graph.constant) :
               constant_decode(get_row(graph.constant, i)[1],
                               get_row(graph.constant, i)[2]).value = -1
        /\ LiveCount(graph, "Param") = 1
        /\ \A i \in LiveRows(graph.param) :
               param_decode(get_row(graph.param, i)[1],
                            get_row(graph.param, i)[2]).index = 0
        /\ LiveCount(graph, "Start") = 1
        /\ LiveCount(graph, "Region") = 2
        /\ LiveCount(graph, "Branch") = 2
        /\ LiveCount(graph, "ControlProj") = 4
        /\ LiveCount(graph, "Finish") = 1
        /\ LiveCount(graph, "Phi") = 3
        /\ LiveCount(graph, "Add") = 2

\* The rebuild of the graph of basic has returned.
C19_Witness ==
    /\ call.name = "rebuild"
    /\ call.program = Basic
    /\ call.returned
    /\ num_classes(uf) = 27

\* C20: the while-loop static-phi fixed point terminates.  For every
\* program of the family (While statements over assignments, if/else,
\* nested while and return), abstract_interpret comes back: the loop of
\* each While statement reaches its break.
C20_FixedPointTerminates ==
    call.name = "abstract_interpret" => call.returned

\* C21: dump determinism.  Two runs that make the same makeset, insert,
\* merge and rebuild calls, each iterating its hash sets in an order of
\* its own, agree at every point: rebuild comes back in both or in
\* neither, the union-finds hold the same ids in the same classes, every
\* table holds the same rows in the same slots (so the same live rows in
\* the same RowId order), and the dump texts are equal.
SamePartition(v, w) ==
    /\ num_classes(v) = num_classes(w)
    /\ \A a \in Ids(v), b \in Ids(v) : Equiv(v, a, b) <=> Equiv(w, a, b)

SameRows(g, h) ==
    \A i \in 1 .. Len(TermTables) :
        /\ LiveRows(g[table_of(TermTables[i])])
               = LiveRows(h[table_of(TermTables[i])])
        /\ \A row \in LiveRows(g[table_of(TermTables[i])]) :
               get_row(g[table_of(TermTables[i])], row)
                   = get_row(h[table_of(TermTables[i])], row)

C21_DumpDeterminism ==
    /\ call.name = "rebuild" => twin.returned = call.returned
    /\ SamePartition(uf, twin.uf)
    /\ SameRows(graph, twin.graph)
    /\ dump(graph) = dump(twin.graph)

\* Both runs came back from a rebuild that found equal classes in a graph
\* where two ids are each the root of two rows: is_disjoint iterated sets
\* of two elements, in opposite orders in the two runs.
C21_Witness ==
    /\ call.name = "rebuild"
    /\ call.returned
    /\ twin.returned
    /\ call.coarsened
    /\ \E i \in 1 .. Len(dump(graph)), j \in 1 .. Len(dump(graph)) :
           i # j /\ dump(graph)[i][3] = dump(graph)[j][3]

\* C22: the smaller id wins.  After any sequence of makeset, merge and
\* find, find(x) is the least id of x's class, for every id x: the value
\* is fixed by the partition, whatever calls produced it.
C22_FindIsLeastOfClass ==
    \A x \in Ids(uf) : find(uf, x).ret = Least(Class(uf, x))

\* A class of three ids built by merges called with the larger class
\* first, with a find in between, holding an id two steps from its root.
C22_Witness ==
    /\ call.name = "merge"
    /\ call.a > call.b
    /\ Cardinality(Class(uf, call.a)) >= 3
    /\ \E x \in Ids(uf) : parent(uf, parent(uf, x)) # parent(uf, x)

\* C23: the parent forest.  In every state reached by makeset, find and
\* merge, and in the vectors new_all_equals and new_all_not_equals build,
\* parent(i) <= i for every id i, and the parent chain of every id ends in
\* a self-parent cell within num_classes steps.
Forest(v) ==
    \A i \in Ids(v) :
        /\ parent(v, i) \in Ids(v)
        /\ parent(v, i) <= i
        /\ Rep(v, i) \in Ids(v)

C23_ParentForest ==
    /\ Forest(uf)
    /\ \A amount \in 0 .. MaxClasses :
           Forest(new_all_equals(amount)) /\ Forest(new_all_not_equals(amount))

\* A merge has just pointed the root of the larger-numbered class at the
\* other root, and some id is two steps from its root.
C23_Witness ==
    /\ call.name = "merge"
    /\ ~Equiv(pre_uf, call.a, call.b)
    /\ \E i \in Ids(uf) : parent(uf, i) < i /\ parent(pre_uf, i) = i
    /\ \E x \in Ids(uf) : parent(uf, parent(uf, x)) # parent(uf, x)

\* C24: path compression does not show in the partition.  A call find(x)
\* changes the parent only of ids on x's path, each to one of its own
\* ancestors, and the representative of every id is what it was.
RECURSIVE Ancestors(_, _, _)
Ancestors(v, id, fuel) ==
    IF parent(v, id) = id \/ fuel = 0 THEN {}
    ELSE {parent(v, id)} \cup Ancestors(v, parent(v, id), fuel - 1)

C24_FindCompressionFrame ==
    call.name = "find" =>
        /\ num_classes(uf) = num_classes(pre_uf)
        /\ \A i \in Ids(pre_uf) :
               parent(uf, i) # parent(pre_uf, i) =>
                   /\ i \in {call.a} \cup Ancestors(pre_uf, call.a, Len(pre_uf))
                   /\ parent(uf, i) \in Ancestors(pre_uf, i, Len(pre_uf))
        /\ \A i \in Ids(pre_uf) : Rep(uf, i) = Rep(pre_uf, i)

\* A find that rewrote a parent pointer while an id off its path was not
\* a root.
C24_Witness ==
    /\ call.name = "find"
    /\ \E i \in Ids(pre_uf) : parent(uf, i) # parent(pre_uf, i)
    /\ \E j \in Ids(pre_uf) :
           /\ j \notin {call.a} \cup Ancestors(pre_uf, call.a, Len(pre_uf))
           /\ parent(pre_uf, j) # j

\* C29: frame of a conflict-free insert.  A Graph::insert of a term whose
\* determinant has no live row in the table of its constructor appends
\* exactly one slot to that table, holding the encoded term; every other
\* table is unchanged; the union-find is unchanged, so no merge was made
\* and no class allocated; and the term comes back as given.
C29_ConflictFreeInsertFrame ==
    [][ (/\ call'.name = "insert"
         /\ LiveWith(graph[table_of(call'.term.tag)],
                     encode(call'.term)[1]) = {}) =>
            /\ graph'[table_of(call'.term.tag)].contents
                   = Append(graph[table_of(call'.term.tag)].contents,
                            encode(call'.term))
            /\ \A i \in 1 .. Len(TermTables) :
                   table_of(TermTables[i]) # table_of(call'.term.tag)
                       => graph'[table_of(TermTables[i])]
                              = graph[table_of(TermTables[i])]
            /\ uf' = uf
            /\ call'.ret = call'.term
      ]_vars

\* An insert that appended its row to a table holding another row and no
\* tombstone, in a graph where two classes had been merged.
C29_Witness ==
    /\ call.name = "insert"
    /\ ~call.coarsened
    /\ Len(graph[table_of(call.term.tag)].contents) = 2
    /\ LiveRows(graph[table_of(call.term.tag)]) = {0, 1}
    /\ get_row(graph[table_of(call.term.tag)], 1) = encode(call.term)
    /\ \E x \in Ids(uf) : parent(uf, x) # x

\* C30: corebuild terminates.  For the rows and the union-find of every
\* graph built from RebuildTerms over five classes, and under either
\* hasher, the refinement loop of corebuild reaches its break: it does not
\* come round to a last_uf it has already had.
C30_CorebuildTerminates ==
    \A hasher \in Hashers : corebuild(terms(graph), uf, hasher).returned

(***************************************************************************)
(* Properties of rebuild against congruence closure.  A partition is held  *)
(* flat: Flat(v)[i + 1] is the least id of the class of i.                 *)
(***************************************************************************)
Flat(v) == [i \in 1 .. Len(v) |-> Rep(v, i - 1)]

\* The partition f with the classes of a and b made one.
Glue(f, a, b) ==
    LET low == IF f[a + 1] < f[b + 1] THEN f[a + 1] ELSE f[b + 1]
    IN  [i \in 1 .. Len(f) |->
            IF f[i] \in {f[a + 1], f[b + 1]} THEN low ELSE f[i]]

RECURSIVE GlueAll(_, _)
GlueAll(f, pairs) ==
    IF pairs = {} THEN f
    ELSE LET pair == CHOOSE p \in pairs : TRUE
         IN  GlueAll(Glue(f, pair[1], pair[2]), pairs \ {pair})

\* Rows s and t of one table with equal literal columns and children that
\* are equivalent under f.
Congruent(s, t, f) ==
    /\ s.tag = t.tag
    /\ \A fld \in DOMAIN s \ {"root"} :
           IF fld \in ClassFields(s)
           THEN f[s[fld] + 1] = f[t[fld] + 1]
           ELSE s[fld] = t[fld]

\* The pairs of roots congruence forces together and f keeps apart.
ForcedPairs(rows, f) ==
    {<<p[1].root, p[2].root>> :
        p \in {q \in rows \X rows :
                  /\ Congruent(q[1], q[2], f)
                  /\ f[q[1].root + 1] # f[q[2].root + 1]}}

\* The smallest partition that contains f and is closed under congruence
\* of the rows.
RECURSIVE CongruenceClosure(_, _)
CongruenceClosure(rows, f) ==
    IF ForcedPairs(rows, f) = {}
    THEN f
    ELSE CongruenceClosure(rows, GlueAll(f, ForcedPairs(rows, f)))

TermSet(g) == {terms(g)[i] : i \in 1 .. Len(terms(g))}

\* C31: rebuild merges only what congruence forces.  When Graph.rebuild
\* returns, the class partition is the smallest one that contains the
\* partition it started from and in which two rows of one table with equal
\* literal columns and equivalent children have equivalent roots.
C31_RebuildIsLeastCongruence ==
    [][ (call'.name = "rebuild" /\ call'.returned) =>
            Flat(uf') = CongruenceClosure(TermSet(graph), Flat(uf)) ]_vars

\* Row k of table `after` is the canonical image under v of row i of table
\* `before`: its determinant is that of row i with every ClassId replaced
\* by its find, and its root is find-equal to the root of row i.
CanonImage(tag, before, i, after, k, v) ==
    /\ get_row(after, k)[1] = CanonDet(tag, get_row(before, i), v)
    /\ Rep(v, StoredRoot(after, k)) = Rep(v, StoredRoot(before, i))

\* C32: rebuild loses no term.  Over a Graph.rebuild that returns, every
\* row live in a table before it has a canonical image among the live rows
\* of the same table after it, and every row live after it is the
\* canonical image of a row that was live before.
C32_RebuildLosesNoTerm ==
    [][ (call'.name = "rebuild" /\ call'.returned) =>
          \A tag \in Tags :
              /\ \A i \in LiveRows(graph[table_of(tag)]) :
                     \E k \in LiveRows(graph'[table_of(tag)]) :
                         CanonImage(tag, graph[table_of(tag)], i,
                                    graph'[table_of(tag)], k, uf')
              /\ \A k \in LiveRows(graph'[table_of(tag)]) :
                     \E i \in LiveRows(graph[table_of(tag)]) :
                         CanonImage(tag, graph[table_of(tag)], i,
                                    graph'[table_of(tag)], k, uf')
      ]_vars

\* A rebuild that returned with live rows in two tables, one of which had
\* a row rewritten to a child that is not the id it was inserted with.
C32_Witness ==
    /\ call.name = "rebuild"
    /\ call.returned
    /\ Cardinality({tag \in Tags : LiveRows(graph[table_of(tag)]) # {}}) = 2
    /\ \E tag \in {"ControlProj", "Add"} :
          /\ graph[table_of(tag)].num_free_rows >= 1
          /\ graph[table_of(tag)].num_allocated_rows = 1
          /\ get_row(graph[table_of(tag)], 0)
                 = Tombstone(graph[table_of(tag)].D, graph[table_of(tag)].P)

\* The representatives of v.
Reps(v) == {Rep(v, i) : i \in Ids(v)}

\* The union-find after each of the nine rebuild_table calls of one
\* iteration of Graph::rebuild, started on graph g and union-find v.
RECURSIVE TableSteps(_, _, _)
TableSteps(g, v, i) ==
    IF i > Len(TermTables) THEN << >>
    ELSE LET r == rebuild_table(TermTables[i], g[table_of(TermTables[i])], v)
         IN  <<r.uf>> \o TableSteps(
                 [g EXCEPT ![table_of(TermTables[i])] = r.table], r.uf, i + 1)

\* The union-find at the steps of an iteration of Graph::rebuild: at its
\* start, after corebuild, and after each rebuild_table.
StepsAfter(g, v, core) ==
    IF core.returned
    THEN <<v, core.uf>> \o TableSteps(g, core.uf, 1)
    ELSE <<v>>

RebuildSteps(g, v, hasher) == StepsAfter(g, v, corebuild(terms(g), v, hasher))

\* v and w hold the same ids and w has no more representatives than v.
NoFiner(v, w) ==
    /\ num_classes(w) = num_classes(v)
    /\ Cardinality(Reps(w)) <= Cardinality(Reps(v))

\* C33: rebuild creates no class and only coarsens.  Over every call of
\* Graph.rebuild num_classes is unchanged and the number of representatives
\* does not grow; and at each step of the first iteration of that call
\* (corebuild, then each rebuild_table) the same holds from one step to
\* the next.
C33_RebuildOnlyCoarsens ==
    [][ call'.name = "rebuild" =>
          /\ NoFiner(uf, uf')
          /\ \A hasher \in Hashers :
                 \A steps \in {RebuildSteps(graph, uf, hasher)} :
                     \A k \in 1 .. (Len(steps) - 1) :
                         NoFiner(steps[k], steps[k + 1])
      ]_vars

\* A rebuild that returned over three ids and left two classes, one of
\* them a singleton, having rewritten a row.
C33_Witness ==
    /\ call.name = "rebuild"
    /\ call.returned
    /\ call.coarsened
    /\ num_classes(uf) = 3
    /\ Cardinality(Reps(uf)) = 2
    /\ \E tag \in Tags : graph[table_of(tag)].num_free_rows >= 1

\* C34: rebuild_table's result flag is exact.  Called on any table of a
\* reachable graph with its union-find, rebuild_table returns true exactly
\* when some live row is not canonical; when it returns false the table
\* (rows and RowIds) and the partition are as they were; and in the table
\* and union-find it leaves every live row is canonical.
FlagExact(tag, t, v, r) ==
    /\ r.ret <=> ~CanonRows([graph EXCEPT ![table_of(tag)] = t], v, tag)
    /\ ~r.ret => (r.table = t /\ Flat(r.uf) = Flat(v))
    /\ CanonRows([graph EXCEPT ![table_of(tag)] = r.table], r.uf, tag)

C34_RebuildTableFlagExact ==
    \A tag \in Tags :
        \A r \in {rebuild_table(tag, graph[table_of(tag)], uf)} :
            FlagExact(tag, graph[table_of(tag)], uf, r)

\* A graph, just after a merge, on which rebuild_table returns true for a
\* table of two live rows, having merged their roots and left one row.
C34_Witness ==
    /\ call.name = "merge"
    /\ \E tag \in Tags :
           \E r \in {rebuild_table(tag, graph[table_of(tag)], uf)} :
               /\ Cardinality(LiveRows(graph[table_of(tag)])) = 2
               /\ r.ret
               /\ Flat(r.uf) # Flat(uf)
               /\ Cardinality(LiveRows(r.table)) = 1

\* The live (determinant, dependent) rows of a table, as a set.
RowSet(t) == {get_row(t, idx) : idx \in LiveRows(t)}

\* C35: rebuild is idempotent.  A Graph.rebuild called right after a
\* Graph.rebuild that returned comes back, and leaves the class partition
\* and the set of live rows of every table as they were.
C35_RebuildIdempotent ==
    [][ (call.name = "rebuild" /\ call.returned /\ call'.name = "rebuild") =>
          /\ call'.returned
          /\ Flat(uf') = Flat(uf)
          /\ \A tag \in Tags :
                 RowSet(graph'[table_of(tag)]) = RowSet(graph[table_of(tag)])
      ]_vars

\* A second rebuild in a row came back, the first having merged classes
\* and rewritten a row.
C35_Witness ==
    /\ call.name = "rebuild"
    /\ call.again
    /\ call.returned
    /\ \E x \in Ids(uf) : Rep(uf, x) # x
    /\ \E tag \in {"ControlProj", "Add"} :
          /\ graph[table_of(tag)].num_free_rows >= 1
          /\ LiveRows(graph[table_of(tag)]) # {}

(***************************************************************************)
(* Properties of the While construction.  call.whiles holds one record per *)
(* While that reached its `if !changed` arm: the stores and the two maps   *)
(* of that moment, and, once the statement has handed back its store       *)
(* (done), the union-find and the Phi table it left.                       *)
(***************************************************************************)
Range(f) == {f[i] : i \in DOMAIN f}

\* The placeholders the Whiles of the log allocated.
Placeholders(whiles) ==
    UNION {Range(whiles[i].static_phis) : i \in DOMAIN whiles}

\* The Phi table holds a live row Phi(region, lhs, rhs) -> root, up to find.
HasPhi(t, v, region, lhs, rhs, class) ==
    \E k \in LiveRows(t) :
        LET term == decode("Phi", get_row(t, k)[1], get_row(t, k)[2])
        IN  /\ Rep(v, term.region) = Rep(v, region)
            /\ Rep(v, term.lhs) = Rep(v, lhs)
            /\ Rep(v, term.rhs) = Rep(v, rhs)
            /\ Rep(v, term.root) = Rep(v, class)

\* The ids a live row of the graph mentions in a ClassId column.
Mentioned(g) ==
    UNION {{terms(g)[i][fld] : fld \in ClassFields(terms(g)[i])} :
               i \in 1 .. Len(terms(g))}

\* C36: static phis are merged away.  When a While has been constructed,
\* every placeholder allocated for an identifier has the find of that
\* identifier's last concrete expression, which is the class of the Phi
\* over the loop-body region of the pre-loop value and the post-body value;
\* and after the rebuild that follows, every placeholder a live row
\* mentions is canonical.
C36_StaticPhisMergedAway ==
    /\ call.name = "abstract_interpret" =>
           \A i \in DOMAIN call.whiles :
               LET w == call.whiles[i]
               IN  w.done =>
                       \A iden \in DOMAIN w.static_phis :
                           /\ Rep(w.uf, w.static_phis[iden])
                                  = Rep(w.uf, w.last_concrete_expr[iden])
                           /\ HasPhi(w.phi, w.uf, w.region, w.in_s[iden],
                                     w.post_s[iden], w.static_phis[iden])
    /\ (call.name = "rebuild" /\ call.returned) =>
           \A id \in Placeholders(call.whiles) \cap Mentioned(graph) :
               Rep(uf, id) = id

\* A rebuild has returned on the graph of a loop whose placeholder a live
\* row still mentions.
C36_Witness ==
    /\ call.name = "rebuild"
    /\ call.returned
    /\ \E i \in DOMAIN call.whiles :
           /\ call.whiles[i].done
           /\ Range(call.whiles[i].static_phis) \cap Mentioned(graph) # {}

\* call.visits holds one record per identifier and pass of the loop
\* `for (iden, new_expr) in before_body_s.iter_mut()`: the pre-loop value,
\* the post-body value (None when after_body_s has none), whether a
\* placeholder was made, and the value handed to the next evaluation of
\* the body.  The loop-body region names the While.
SameVisit(d, e) == d.region = e.region /\ d.iden = e.iden

Disagrees(e) == e.post # None /\ e.pre # e.post

\* C37: one static phi per identifier.  In the construction of one While
\* an identifier gets a placeholder exactly on the first pass on which its
\* post-body value differs from its pre-loop value, never a second one,
\* and from that pass on the body is evaluated with that placeholder.
C37_OnePlaceholderPerIdentifier ==
    call.name = "abstract_interpret" =>
        \A i \in DOMAIN call.visits :
            LET e == call.visits[i]
                earlier == {j \in 1 .. (i - 1) :
                                SameVisit(call.visits[j], e)}
            IN  /\ e.allocated <=>
                       /\ Disagrees(e)
                       /\ \A j \in earlier : ~Disagrees(call.visits[j])
                /\ \A j \in earlier :
                       call.visits[j].allocated =>
                           /\ ~e.allocated
                           /\ e.handed = call.visits[j].handed

\* A While went through three passes of the else arm for one identifier,
\* the first of which made its placeholder.
C37_Witness ==
    /\ call.name = "abstract_interpret"
    /\ \E i, j, k \in DOMAIN call.visits :
           /\ i < j
           /\ j < k
           /\ SameVisit(call.visits[i], call.visits[j])
           /\ SameVisit(call.visits[j], call.visits[k])
           /\ call.visits[i].allocated
           /\ Disagrees(call.visits[j])
           /\ Disagrees(call.visits[k])

\* The step of identifier iden in the record j of a call of merge_down.
StepOf(j, iden) ==
    CHOOSE st \in Range(j.steps) : st.iden = iden

\* The step left the Phi table and the number of classes as they were.
StepIdle(st) == st.phi_after = st.phi /\ st.n_after = st.n

\* The identifier goes through a call of merge_down as the join requires.
Joined(j, iden) ==
    LET st == StepOf(j, iden)
        det == encode(Phi(j.region, j.lhs_s[iden], j.rhs_s[iden], 0))[1]
    IN  IF j.lhs_s[iden] = j.rhs_s[iden]
        THEN /\ j.merged_s[iden] = j.lhs_s[iden]
             /\ StepIdle(st)
        ELSE /\ Cardinality(LiveWith(st.phi_after, det)) = 1
             /\ \A k \in LiveWith(st.phi_after, det) :
                    j.merged_s[iden]
                        = Rep(st.uf_after, StoredRoot(st.phi_after, k))
             /\ Cardinality(LiveRows(st.phi_after))
                    = Cardinality(LiveRows(st.phi))
                        + (IF LiveWith(st.phi, det) = {} THEN 1 ELSE 0)
             /\ st.n_after = st.n + 1

\* C38: join at a confluence.  Every call of merge_down returns a store
\* over the identifiers both stores hold; an identifier with the same
\* ClassId on both sides keeps it and no Phi is inserted for it; one with
\* two different ClassIds maps to the find of the root of the one live row
\* Phi(region, lhs, rhs), inserted if it was not there; an identifier of
\* only one store is absent and nothing is inserted for it; and an if
\* without else joins the store of its then side with the store the
\* statement was given.
C38_JoinAtConfluence ==
    call.name = "abstract_interpret" =>
        /\ \A i \in DOMAIN call.joins :
               LET j == call.joins[i]
               IN  /\ DOMAIN j.merged_s = DOMAIN j.lhs_s \cap DOMAIN j.rhs_s
                   /\ {st.iden : st \in Range(j.steps)} = DOMAIN j.lhs_s
                   /\ Len(j.steps) = Cardinality(DOMAIN j.lhs_s)
                   /\ \A iden \in DOMAIN j.merged_s : Joined(j, iden)
                   /\ \A iden \in DOMAIN j.lhs_s \ DOMAIN j.rhs_s :
                          StepIdle(StepOf(j, iden))
        /\ \A i \in DOMAIN call.ifs :
               LET f == call.ifs[i]
               IN  /\ call.joins[f.join].lhs_s = f.lhs_s
                   /\ ~f.has_else => call.joins[f.join].rhs_s = f.in_s

\* An if without else whose join lets one identifier through and builds a
\* Phi for another.
C38_Witness ==
    /\ call.name = "abstract_interpret"
    /\ \E f \in Range(call.ifs) :
           /\ ~f.has_else
           /\ \E a, b \in DOMAIN call.joins[f.join].merged_s :
                  /\ call.joins[f.join].lhs_s[a] = call.joins[f.join].rhs_s[a]
                  /\ call.joins[f.join].lhs_s[b] # call.joins[f.join].rhs_s[b]

(***************************************************************************)
(* The encoders and decoders on their own: a term of one of the nine       *)
(* variants is encoded with the encoder of its variant and the columns     *)
(* are decoded with the decoder of the same table, as Graph::insert and    *)
(* Graph::terms pair them.  The ClassIds, literals and indexes are drawn   *)
(* from both halves of the word and from the ends of their ranges.         *)
(***************************************************************************)
TermIds == {0, 1, 65535, 65536}

TermLiterals ==
    {-2147483647 - 1, -65536, -1, 0, 1, 65535, 65536, 2147483647}

TermIndexes == {0, 1, 65536, 2147483647}

TermFamily ==
    {Constant(value, r) : value \in TermLiterals, r \in TermIds}
    \cup {Param(index, r) : index \in TermIndexes, r \in TermIds}
    \cup {Start(r) : r \in TermIds}
    \cup {Region(a, b, r) : a \in TermIds, b \in TermIds, r \in TermIds}
    \cup {Branch(a, b, r) : a \in TermIds, b \in TermIds, r \in TermIds}
    \cup {ControlProj(a, index, r) :
              a \in TermIds, index \in TermIndexes, r \in TermIds}
    \cup {Finish(a, b, r) : a \in TermIds, b \in TermIds, r \in TermIds}
    \cup {Phi(a, b, c, r) :
              a \in TermIds, b \in TermIds, c \in TermIds, r \in TermIds}
    \cup {Add(a, b, r) : a \in TermIds, b \in TermIds, r \in TermIds}

TermInit ==
    /\ uf = new
    /\ pre_uf = new
    /\ table = << >>
    /\ pre_table = << >>
    /\ issued = {}
    /\ graph = graph_new
    /\ made = << >>
    /\ twin = NoTwin
    /\ \E term \in TermFamily : call = [name |-> "term", term |-> term]

TermEncode ==
    /\ call.name = "term"
    /\ call' = [name |-> "encode", term |-> call.term,
                det |-> encode(call.term)[1], dep |-> encode(call.term)[2]]
    /\ UNCHANGED <<uf, pre_uf, table, pre_table, issued, graph, made, twin>>

TermDecode ==
    /\ call.name = "encode"
    /\ call' = [name |-> "decode", term |-> call.term,
                det |-> call.det, dep |-> call.dep,
                ret |-> decode(call.term.tag, call.det, call.dep)]
    /\ UNCHANGED <<uf, pre_uf, table, pre_table, issued, graph, made, twin>>

TermNext == TermEncode \/ TermDecode

SpecTerm == TermInit /\ [][TermNext]_vars

\* The structural fields of each variant in the order of its declaration,
\* which is the order of the columns of its table.
Schema(tag) ==
    CASE tag = "Constant" -> <<"value">>
      [] tag = "Param" -> <<"index">>
      [] tag = "Start" -> << >>
      [] tag = "Region" -> <<"lhs", "rhs">>
      [] tag = "Branch" -> <<"pred", "cond">>
      [] tag = "ControlProj" -> <<"pred", "index">>
      [] tag = "Finish" -> <<"pred", "value">>
      [] tag = "Phi" -> <<"region", "lhs", "rhs">>
      [] tag = "Add" -> <<"lhs", "rhs">>

\* The u32 with the bits of a field: a literal n < 0 is 2^32 + n, written
\* as its two halves 65535 - ((-n - 1) \div 65536) and
\* 65535 - ((-n - 1) % 65536).
Bits(term, fld) ==
    IF term.tag = "Constant" /\ fld = "value" /\ term.value < 0
    THEN << 65535 - ((-(term.value + 1)) \div 65536),
            65535 - ((-(term.value + 1)) % 65536) >>
    ELSE << term[fld] \div 65536, term[fld] % 65536 >>

\* C39: encode and decode round-trip.  For every term of the nine
\* variants decode(encode(t)) = t; the determinant holds exactly the
\* structural fields in schema order and the dependent holds root alone;
\* a negative Constant literal is stored as its two's complement, -1 as
\* 4294967295 (both halves 65535).
C39_EncodeDecodeRoundTrip ==
    /\ call.name \in {"encode", "decode"} =>
           /\ Len(call.det) = Len(Schema(call.term.tag))
           /\ \A i \in DOMAIN call.det :
                  call.det[i] = Bits(call.term, Schema(call.term.tag)[i])
           /\ call.dep = << Bits(call.term, "root") >>
           /\ (call.term.tag = "Constant" /\ call.term.value = -1) =>
                  call.det = << <<65535, 65535>> >>
    /\ call.name = "decode" => call.ret = call.term

\* Constant(-1) has been encoded and decoded.
C39_Witness ==
    /\ call.name = "decode"
    /\ call.term.tag = "Constant"
    /\ call.term.value = -1
    /\ call.det = << EMPTY >>

(***************************************************************************)
(* The interval domain (imp/src/interval.rs).  An Interval is a record of  *)
(* two i32 bounds; an IntervalDomain is the map `intervals` from           *)
(* identifiers to Intervals (`finished` is None wherever widen is          *)
(* allowed).  Only comparisons of bounds occur in widen, so the bounds     *)
(* are plain integers between I32Min and I32Max.                           *)
(***************************************************************************)
I32Max == 2147483647

I32Min == -I32Max - 1

\* Interval::top: the interval with no value in it.
top == [low |-> I32Max, high |-> I32Min]

\* A widening that takes the smaller low and the larger high.
widen_as_join(self, other) ==
    [low |-> IF self.low <= other.low THEN self.low ELSE other.low,
     high |-> IF self.high >= other.high THEN self.high ELSE other.high]

\* Interval::widen
widen(self, other) ==
    [low |-> IF self.low <= other.low THEN self.low ELSE I32Min,
     high |-> IF self.high >= other.high THEN self.high ELSE I32Max]

\* IntervalDomain::widen: the first component of the pair it returns; the
\* second is always false.
domain_widen(self, other) ==
    [iden \in DOMAIN self \cap DOMAIN other |->
        widen(self[iden], other[iden])]

(***************************************************************************)
(* Widening on its own: two domains are drawn, self over x and y and       *)
(* other over x or over both, with intervals between the bounds of         *)
(* IntervalBounds and the empty interval top(); self.widen(other) is       *)
(* taken, and then the result is widened by other once more.               *)
(***************************************************************************)
IntervalBounds == {I32Min, -1, 1, I32Max}

Intervals ==
    {i \in [low : IntervalBounds, high : IntervalBounds] : i.low <= i.high}
    \cup {top}

IvInit ==
    /\ uf = new
    /\ pre_uf = new
    /\ table = << >>
    /\ pre_table = << >>
    /\ issued = {}
    /\ graph = graph_new
    /\ made = << >>
    /\ twin = NoTwin
    /\ \E self \in [{X, Y} -> Intervals] :
           \E other \in [{X} -> Intervals] \cup [{X, Y} -> Intervals] :
               call = [name |-> "domains", self |-> self, other |-> other]

IvWiden ==
    /\ call.name = "domains"
    /\ call' = [name |-> "widen", self |-> call.self, other |-> call.other,
                ret |-> domain_widen(call.self, call.other),
                still_widening |-> FALSE]
    /\ UNCHANGED <<uf, pre_uf, table, pre_table, issued, graph, made, twin>>

IvWidenAgain ==
    /\ call.name = "widen"
    /\ call' = [name |-> "widen again", self |-> call.ret,
                other |-> call.other,
                ret |-> domain_widen(call.ret, call.other),
                still_widening |-> FALSE]
    /\ UNCHANGED <<uf, pre_uf, table, pre_table, issued, graph, made, twin>>

IvNext == IvWiden \/ IvWidenAgain

SpecInterval == IvInit /\ [][IvNext]_vars

\* Interval i lies within interval w, bound by bound.
Within(i, w) == w.low <= i.low /\ i.high <= w.high

\* C40: interval widening.  For every identifier of both domains the
\* result keeps the low of self unless other's low is smaller, and is
\* then i32::MIN, keeps the high of self unless other's high is larger,
\* and is then i32::MAX; it contains self and other; and it is self when
\* other lies within self.
C40_IntervalWidening ==
    call.name \in {"widen", "widen again"} =>
        /\ DOMAIN call.ret = DOMAIN call.self \cap DOMAIN call.other
        /\ \A iden \in DOMAIN call.ret :
               LET self == call.self[iden]
                   other == call.other[iden]
                   w == call.ret[iden]
               IN  /\ w.low = IF other.low < self.low
                              THEN -2147483647 - 1 ELSE self.low
                   /\ w.high = IF other.high > self.high
                               THEN 2147483647 ELSE self.high
                   /\ Within(self, w)
                   /\ Within(other, w)
                   /\ Within(other, self) => w = self

\* A widening that moved the low of x to i32::MIN and kept its high.
C40_Witness ==
    /\ call.name = "widen"
    /\ call.self[X] = [low |-> 1, high |-> 1]
    /\ call.other[X] = [low |-> -1, high |-> 1]
    /\ call.ret[X] = [low |-> I32Min, high |-> 1]

====
